---------------------------- MODULE Spec2Model ----------------------------
(***************************************************************************)
(* Low-complexity masking of sequencing reads (rustmasker / mask_fastq).   *)
(*                                                                         *)
(* The module models the entropy maskers of src/rustmasker/src/lib.rs      *)
(* (mask_sequence over a HashMap, mask_sequence_array over the             *)
(* ArrayEntropyTracker, mask_sequence_auto), the SDUST masker of the same  *)
(* file and the argument validation of the mask_fastq binaries.            *)
(*                                                                         *)
(* Conventions.                                                            *)
(*  - A byte is a one-character string; a byte slice is a sequence of      *)
(*    bytes.  Source offsets are 0-based and are kept 0-based in every     *)
(*    operator; Slice converts to TLA+'s 1-based sequences.                *)
(*  - A Vec indexed by a count or a code is a function on 0..n-1.          *)
(*  - An f64 is named by its rank in the ascending list of the doubles     *)
(*    that the code produces within the bounds (see the tables below), so  *)
(*    that a < b on names is a < b on doubles.                             *)
(*  - A routine that panics (index out of bounds, failed assert!,          *)
(*    arithmetic overflow) yields a result whose fault field says so.      *)
(*    An unsigned operation that leaves its type panics in a build with    *)
(*    overflow checks and wraps in a build without; the fault "overflow"   *)
(*    marks the operation itself, and the model does not follow the        *)
(*    wrapped value any further.                                           *)
(***************************************************************************)
EXTENDS Integers, Sequences, FiniteSets, TLC

(***************************************************************************)
(* Bounds of the model.                                                    *)
(***************************************************************************)
MaxLen == 6
MaxK == 2
MaxWindow == 5

\* the bytes reads are drawn from: two valid bases and one invalid base
ReadBytes == {"A", "C", "N"}

None == -1

\* largest value of a u16 cell (counts, count_counts: lib.rs 191-192)
U16Max == 65535

\* largest value of an i32 (SdustScorer::threshold, the score: lib.rs 479, 498)
I32Max == 2147483647

\* The i32 product a * n for 0 <= n < 2^15, computed on the two 16-bit
\* halves of a (a = hi * 2^16 + lo) so that no intermediate value leaves the
\* range: the high half of the exact product, whether the product fits, and
\* the product as a build without overflow checks keeps it (two's complement).
I32MulHigh(a, n) == (a \div (U16Max + 1)) * n + (((a % (U16Max + 1)) * n) \div (U16Max + 1))
I32MulFits(a, n) == -((U16Max + 1) \div 2) <= I32MulHigh(a, n) /\ 2 * I32MulHigh(a, n) <= U16Max
I32Mul(a, n) ==
  LET high == ((I32MulHigh(a, n) + (U16Max + 1) \div 2) % (U16Max + 1)) - (U16Max + 1) \div 2
      low == ((a % (U16Max + 1)) * n) % (U16Max + 1)
  IN high * (U16Max + 1) + low

\* BEGIN F64 TABLES (tools/f64gen.py)
\* The doubles that occur, in ascending order; a double is named by its
\* position in this list.
\*   0: -2.807354922057604   1: -2.584962500721156   2: -2.3863137138648347   3: -2.321928094887362
\*   4: -2.0   5: -1.9863137138648348   6: -1.9863137138648346   7: -1.9863137138648344
\*   8: -1.9219280948873623   9: -1.9182958340544893   10: -1.8575424759098897   11: -1.8353362134321412
\*   12: -1.8208020839342967   13: -1.8073549220576042   14: -1.792481250360578   15: -1.7924812503605778
\*   16: -1.723308333814104   17: -1.5863137138648349   18: -1.5863137138648344   19: -1.5849625007211565
\*   20: -1.5849625007211563   21: -1.584962500721156   22: -1.5849625007211559   23: -1.5219280948873624
\*   24: -1.5219280948873621   25: -1.521928094887362   26: -1.5   27: -1.4874687506009634
\*   28: -1.4591479170272448   29: -1.4591479170272446   30: -1.4575424759098898   31: -1.4575424759098894
\*   32: -1.4466166676282086   33: -1.4466166676282084   34: -1.4466166676282082   35: -1.446616667628208
\*   36: -1.4353362134321412   37: -1.435336213432141   38: -1.4353362134321408   39: -1.3931568569324173
\*   40: -1.3899750004807707   41: -1.3709505944546687   42: -1.361654166907052   43: -1.3616541669070519
\*   44: -1.3219280948873622   45: -1.292481250360578   46: -1.2516291673878228   47: -1.2516291673878226
\*   48: -1.222392421336448   49: -1.1863137138648348   50: -1.1863137138648345   51: -1.05754247590989
\*   52: -1.0575424759098897   53: -1.0575424759098895   54: -1.0566416671474377   55: -1.0566416671474375
\*   56: -1.0566416671474372   57: -1.0477649325740983   58: -1.040269586874936   59: -1.0327742411757737
\*   60: -1.0283208335737188   61: -1.0283208335737186   62: -1.0283208335737184   63: -1.0
\*   64: -0.9999999999999999   65: -0.9931568569324175   66: -0.9931568569324174   67: -0.9931568569324173
\*   68: -0.9852281360342516   69: -0.9852281360342515   70: -0.9777327903350893   71: -0.9777327903350892
\*   72: -0.9709505944546688   73: -0.9709505944546687   74: -0.9709505944546686   75: -0.9591479170272448
\*   76: -0.9591479170272447   77: -0.9308270834535262   78: -0.930827083453526   79: -0.9308270834535259
\*   80: -0.9287712379549451   81: -0.928771237954945   82: -0.9287712379549449   83: -0.9249331694381354
\*   84: -0.9182958340544898   85: -0.9182958340544897   86: -0.9182958340544896   87: -0.9182958340544894
\*   88: -0.9182958340544893   89: -0.9182958340544892   90: -0.9174378237389731   91: -0.9065649754771964
\*   92: -0.9065649754771963   93: -0.9065649754771962   94: -0.9065649754771961   95: -0.8843587129994477
\*   96: -0.8843587129994476   97: -0.8843587129994475   98: -0.863120568566631   99: -0.8623963728982886
\*   100: -0.8616541669070521   101: -0.861654166907052   102: -0.820802083934297   103: -0.8208020839342969
\*   104: -0.8208020839342968   105: -0.8112781244591328   106: -0.8073549220576042   107: -0.8021014063021725
\*   108: -0.7863137138648348   109: -0.7863137138648347   110: -0.7863137138648346   111: -0.7799500009615419
\*   112: -0.7799500009615418   113: -0.7799500009615417   114: -0.7799500009615415   115: -0.7799500009615414
\*   116: -0.7799500009615413   117: -0.7477841511298304   118: -0.7369655941662062   119: -0.7219280948873623
\*   120: -0.7219280948873622   121: -0.6500224216483542   122: -0.6500224216483541   123: -0.6309297535714575
\*   124: -0.5916727785823275   125: -0.5849625007211563   126: -0.5533833323717916   127: -0.5287712379549451
\*   128: -0.528771237954945   129: -0.5287712379549449   130: -0.528320833573719   131: -0.5283208335737188
\*   132: -0.5283208335737187   133: -0.5283208335737186   134: -0.5283208335737185   135: -0.5283208335737184
\*   136: -0.5238824662870492   137: -0.5163871205878868   138: -0.5000000000000001   139: -0.5
\*   140: -0.4854268271702417   141: -0.46438561897747255   142: -0.4643856189774725   143: -0.46438561897747244
\*   144: -0.4643856189774724   145: -0.46134566974720237   146: -0.44217935649972384   147: -0.4421793564997238
\*   148: -0.44217935649972373   149: -0.430827083453526   150: -0.43067655807339306   151: -0.4150374992788438
\*   152: -0.40105070315108626   153: -0.38997500048077105   154: -0.38997500048077094   155: -0.3899750004807709
\*   156: -0.38997500048077083   157: -0.3899750004807707   158: -0.3899750004807706   159: -0.3899750004807705
\*   160: -0.38685280723454163   161: -0.3562071871080222   162: -0.3491460095238866   163: -0.3491460095238865
\*   164: -0.34914600952388647   165: -0.34914600952388636   166: -0.3467334479787441   167: -0.3219280948873623
\*   168: -0.31564128700055255   169: -0.31127812445913283   170: -0.2630344058337938   171: -0.25754247590988993
\*   172: -0.2575424759098899   173: -0.2575424759098898   174: -0.25754247590988977   175: -0.22239242133644802
\*   176: -0.21919533819482823   177: -0.21919533819482817   178: -0.19062207543124116   179: -0.18872187554086717
\*   180: -0.1846368805898339   181: -0.17077966228594266   182: -0.1383458330929479   183: -0.135939303071254
\*   184: -0.13593930307125396   185: -0.11533641743680056   186: -0.11002499951922917   187: -0.09749375012019273
\*   188: -0.08659188145522112   189: -0.06438561897747241   190: -0.0625   191: -0.02832083357371873
\*   192: -0.007495345699162326   193: -2.220446049250313e-16   194: -1.4009454786722165e-16   195: -1.1102230246251565e-16
\*   196: -7.004727393361082e-17   197: -5.551115123125783e-17   198: 0.0   199: 5e-324
\*   200: 2.1474644686633272e-17   201: 2.3907351546969716e-17   202: 4.781470309393943e-17   203: 7.004727393361082e-17
\*   204: 1.1102230246251565e-16   205: 1.4009454786722165e-16   206: 2.220446049250313e-16   207: 0.02832083357371873
\*   208: 0.06253679653984678   209: 0.06438561897747241   210: 0.06790095329005563   211: 0.08479633191339402
\*   212: 0.08479633191339404   213: 0.08659188145522112   214: 0.09749375012019273   215: 0.11002499951922917
\*   216: 0.11091750708257107   217: 0.1109175070825711   218: 0.11091750708257112   219: 0.11091750708257114
\*   220: 0.11461222176845826   221: 0.12350894618077418   222: 0.1383458330929479   223: 0.14285714285714285
\*   224: 0.1508629236872779   225: 0.15086292368727794   226: 0.15563906222956642   227: 0.15611137254750296
\*   228: 0.16433464330511752   229: 0.16666666666666666   230: 0.17077966228594266   231: 0.18394080368342222
\*   232: 0.1846368805898339   233: 0.18661069969132305   234: 0.18872187554086717   235: 0.19043628330840884
\*   236: 0.19043628330840887   237: 0.1904362833084089   238: 0.19062207543124116   239: 0.19264507794239583
\*   240: 0.19342640361727081   241: 0.19342640361727087   242: 0.19999999999999996   243: 0.19999999999999998
\*   244: 0.2   245: 0.20000000000000004   246: 0.20438239758848614   247: 0.20438239758848617
\*   248: 0.2043823975884862   249: 0.21075809614719848   250: 0.2107580961471985   251: 0.21919533819482817
\*   252: 0.22016580336273808   253: 0.22239242133644802   254: 0.22772937677064276   255: 0.22772937677064278
\*   256: 0.22772937677064284   257: 0.24604683095236157   258: 0.24604683095236163   259: 0.2460468309523617
\*   260: 0.24604683095236174   261: 0.24604683095236177   262: 0.24604683095236185   263: 0.2460468309523619
\*   264: 0.25   265: 0.25146299858006066   266: 0.2514629985800607   267: 0.2575424759098898
\*   268: 0.2594578248925227   269: 0.2630344058337938   270: 0.26636608903791703   271: 0.2857142857142857
\*   272: 0.30719178616226034   273: 0.3071917861622604   274: 0.30744974986419643   275: 0.31091750708257104
\*   276: 0.3109175070825711   277: 0.31091750708257115   278: 0.31127812445913283   279: 0.3156412870005525
\*   280: 0.31564128700055255   281: 0.31752959035394457   282: 0.3175295903539446   283: 0.32192809488736235
\*   284: 0.32679794654056504   285: 0.3294678425484659   286: 0.33333333333333315   287: 0.33333333333333326
\*   288: 0.3333333333333333   289: 0.33333333333333337   290: 0.3333333333333334   291: 0.33333333333333354
\*   292: 0.33864688385321384   293: 0.3386468838532139   294: 0.3467334479787441   295: 0.34827544698853974
\*   296: 0.3482754469885398   297: 0.35094534299644053   298: 0.3509453429964406   299: 0.355245321275764
\*   300: 0.3552453212757641   301: 0.35524532127576414   302: 0.36009307028393744   303: 0.3600930702839375
\*   304: 0.36009307028393756   305: 0.36788160736684444   306: 0.3705515033747453   307: 0.3710490642551528
\*   308: 0.3732213993826461   309: 0.3808725666168177   310: 0.38087256661681773   311: 0.3808725666168178
\*   312: 0.3868528072345416   313: 0.38685280723454163   314: 0.38997500048077083   315: 0.3904362833084088
\*   316: 0.39043628330840885   317: 0.3904362833084089   318: 0.39780880120575685   319: 0.39780880120575696
\*   320: 0.397808801205757   321: 0.39999999999999997   322: 0.4   323: 0.4000000000000001
\*   324: 0.40105070315108626   325: 0.40241011860920295   326: 0.4056390622295664   327: 0.40876479517697223
\*   328: 0.4087647951769723   329: 0.40876479517697234   330: 0.4087647951769724   331: 0.41503749927884376
\*   332: 0.4181656600790516   333: 0.41816566007905165   334: 0.4181656600790517   335: 0.4277293767706427
\*   336: 0.42772937677064277   337: 0.4277293767706428   338: 0.42857142857142855   339: 0.430827083453526
\*   340: 0.44217935649972373   341: 0.4554587535412854   342: 0.4554587535412855   343: 0.45545875354128557
\*   344: 0.46134566974720237   345: 0.46438561897747244   346: 0.4841962570206112   347: 0.48419625702061125
\*   348: 0.4920936619047233   349: 0.4920936619047234   350: 0.4920936619047235   351: 0.49209366190472353
\*   352: 0.4920936619047236   353: 0.4920936619047237   354: 0.5   355: 0.510917507082571
\*   356: 0.5109175070825711   357: 0.5163871205878868   358: 0.5238824662870492   359: 0.5267597369506041
\*   360: 0.5267597369506042   361: 0.5283208335737187   362: 0.5287712379549449   363: 0.5377157309218195
\*   364: 0.55   365: 0.5533833323717915   366: 0.5533833323717916   367: 0.5533833323717917
\*   368: 0.5533833323717918   369: 0.5644754678724235   370: 0.5644754678724236   371: 0.5714285714285714
\*   372: 0.5754314618436389   373: 0.575431461843639   374: 0.5793801642856949   375: 0.579380164285695
\*   376: 0.5793801642856952   377: 0.5793801642856953   378: 0.5849625007211562   379: 0.5904362833084089
\*   380: 0.5916727785823275   381: 0.6   382: 0.6131471927654584   383: 0.6131471927654585
\*   384: 0.6181656600790515   385: 0.6181656600790516   386: 0.6181656600790517   387: 0.6277293767706426
\*   388: 0.6277293767706428   389: 0.6500224216483541   390: 0.6554587535412854   391: 0.6554587535412855
\*   392: 0.6554587535412856   393: 0.6666666666666666   394: 0.6666666666666667   395: 0.6666666666666669
\*   396: 0.6831881303119282   397: 0.6831881303119284   398: 0.6934264036172707   399: 0.6934264036172708
\*   400: 0.7043823975884861   401: 0.7043823975884862   402: 0.7142857142857143   403: 0.7219280948873623
\*   404: 0.7420981285103055   405: 0.7420981285103057   406: 0.7477841511298304   407: 0.75
\*   408: 0.7904362833084089   409: 0.7999999999999999   410: 0.8   411: 0.8021014063021725
\*   412: 0.8112781244591328   413: 0.8208020839342969   414: 0.8277293767706427   415: 0.8277293767706428
\*   416: 0.8333333333333334   417: 0.8554587535412854   418: 0.8554587535412855   419: 0.8571428571428571
\*   420: 0.861654166907052   421: 0.8623963728982886   422: 0.863120568566631   423: 0.8774437510817343
\*   424: 0.9065649754771962   425: 0.9127134976190283   426: 0.9127134976190284   427: 0.9127134976190286
\*   428: 0.9127134976190288   429: 0.9174378237389731   430: 0.9182958340544896   431: 0.9249331694381354
\*   432: 0.9287712379549449   433: 0.9308270834535259   434: 0.9591479170272448   435: 0.9709505944546686
\*   436: 0.9777327903350892   437: 0.9852281360342515   438: 0.9931568569324173   439: 0.9999999999999999
\*   440: 1.0   441: 1.0000000000000002   442: 1.0000000000000004   443: 1.0277293767706428
\*   444: 1.0283208335737188   445: 1.0327742411757737   446: 1.040269586874936   447: 1.0477649325740983
\*   448: 1.0566416671474375   449: 1.0575424759098897   450: 1.1428571428571428   451: 1.1666666666666667
\*   452: 1.2   453: 1.25   454: 1.2516291673878228   455: 1.292481250360578
\*   456: 1.3333333333333333   457: 1.3616541669070519   458: 1.3709505944546687   459: 1.3899750004807707
\*   460: 1.3931568569324173   461: 1.4575424759098898   462: 1.4591479170272446   463: 1.4591479170272448
\*   464: 1.4874687506009634   465: 1.5   466: 1.5219280948873621   467: 1.584962500721156
\*   468: 1.723308333814104   469: 1.7924812503605778   470: 1.792481250360578   471: 1.8208020839342967
\*   472: 1.8208020839342969   473: 1.8575424759098897   474: 1.9182958340544893   475: 1.9182958340544896
\*   476: 1.9219280948873623   477: 2.0   478: 2.321928094887362   479: 2.584962500721156
\*   480: 2.807354922057604   481: 3.0   482: 4.0   483: 5.0
\*   484: 6.0   485: 7.0   486: 8.0   487: 16.0
\*   488: 65536.0
F64Name ==
  [zero |-> 198, one |-> 440, minus_one |-> 63,
   t020 |-> 244, third |-> 288, t055 |-> 364, t150 |-> 465,
   tiny |-> 199]
F64OfNatRows ==
  {<<1, 440>>, <<2, 477>>, <<3, 481>>, <<4, 482>>, <<5, 483>>, <<6, 484>>, <<7, 485>>,
   <<8, 486>>, <<65536, 488>>}
F64Log2Rows ==
  {<<223, 0>>, <<229, 1>>, <<244, 3>>, <<264, 4>>, <<271, 13>>, <<288, 20>>, <<322, 44>>,
   <<338, 48>>, <<354, 63>>, <<371, 106>>, <<381, 118>>, <<393, 125>>, <<402, 140>>,
   <<407, 151>>, <<410, 167>>, <<416, 170>>, <<419, 175>>, <<440, 198>>, <<450, 239>>,
   <<451, 253>>, <<452, 269>>, <<453, 283>>, <<456, 331>>, <<465, 378>>, <<477, 440>>,
   <<481, 467>>, <<482, 477>>, <<483, 478>>, <<484, 479>>, <<485, 480>>, <<488, 487>>}
F64AddRows ==
  {<<2, 209, 3>>, <<2, 345, 8>>, <<3, 189, 2>>, <<3, 345, 10>>, <<4, 354, 26>>, <<5, 209, 8>>,
   <<5, 345, 23>>, <<6, 209, 8>>, <<6, 345, 24>>, <<8, 143, 2>>, <<8, 189, 5>>,
   <<8, 209, 10>>, <<8, 213, 11>>, <<8, 345, 30>>, <<10, 143, 3>>, <<10, 189, 8>>,
   <<10, 345, 39>>, <<11, 188, 8>>, <<11, 345, 41>>, <<12, 187, 9>>, <<12, 207, 14>>,
   <<16, 187, 12>>, <<17, 209, 23>>, <<18, 209, 25>>, <<19, 222, 32>>, <<19, 361, 54>>,
   <<20, 222, 33>>, <<20, 361, 54>>, <<21, 222, 34>>, <<21, 361, 56>>, <<22, 222, 35>>,
   <<22, 361, 56>>, <<23, 143, 5>>, <<23, 189, 17>>, <<23, 209, 30>>, <<23, 213, 36>>,
   <<23, 345, 51>>, <<24, 143, 6>>, <<24, 189, 18>>, <<24, 209, 30>>, <<24, 213, 37>>,
   <<24, 345, 52>>, <<25, 143, 7>>, <<25, 189, 18>>, <<25, 209, 31>>, <<25, 213, 38>>,
   <<25, 345, 53>>, <<26, 139, 4>>, <<26, 198, 26>>, <<26, 354, 63>>, <<27, 149, 9>>,
   <<27, 187, 21>>, <<27, 207, 29>>, <<30, 143, 8>>, <<30, 189, 23>>, <<30, 209, 39>>,
   <<30, 213, 41>>, <<30, 345, 66>>, <<33, 182, 20>>, <<33, 361, 85>>, <<34, 182, 21>>,
   <<34, 361, 87>>, <<35, 182, 22>>, <<35, 361, 89>>, <<36, 188, 23>>, <<36, 209, 41>>,
   <<36, 345, 72>>, <<37, 188, 24>>, <<37, 209, 41>>, <<37, 345, 74>>, <<39, 143, 10>>,
   <<39, 189, 30>>, <<39, 345, 82>>, <<40, 149, 12>>, <<40, 187, 27>>, <<40, 207, 43>>,
   <<41, 143, 11>>, <<41, 188, 30>>, <<41, 189, 36>>, <<41, 232, 49>>, <<41, 345, 92>>,
   <<42, 149, 14>>, <<42, 187, 28>>, <<43, 149, 15>>, <<43, 187, 29>>, <<43, 215, 47>>,
   <<45, 149, 16>>, <<45, 187, 40>>, <<49, 180, 41>>, <<49, 345, 119>>, <<51, 143, 23>>,
   <<51, 209, 65>>, <<51, 213, 72>>, <<52, 143, 24>>, <<52, 209, 67>>, <<52, 213, 74>>,
   <<54, 132, 19>>, <<54, 207, 60>>, <<54, 222, 84>>, <<54, 361, 130>>, <<55, 132, 21>>,
   <<55, 149, 27>>, <<55, 207, 60>>, <<55, 214, 75>>, <<55, 222, 86>>, <<55, 361, 132>>,
   <<56, 132, 21>>, <<56, 207, 62>>, <<56, 222, 88>>, <<56, 361, 134>>, <<57, 208, 69>>,
   <<58, 192, 57>>, <<58, 208, 70>>, <<59, 192, 58>>, <<60, 149, 28>>, <<60, 191, 54>>,
   <<60, 207, 63>>, <<60, 214, 77>>, <<60, 215, 85>>, <<61, 191, 56>>, <<61, 207, 64>>,
   <<61, 215, 87>>, <<63, 139, 26>>, <<63, 191, 60>>, <<63, 198, 63>>, <<63, 234, 105>>,
   <<63, 354, 139>>, <<64, 191, 61>>, <<65, 143, 30>>, <<65, 189, 51>>, <<65, 209, 80>>,
   <<65, 213, 91>>, <<65, 345, 127>>, <<66, 143, 30>>, <<66, 189, 51>>, <<66, 209, 81>>,
   <<66, 213, 92>>, <<66, 345, 128>>, <<67, 143, 30>>, <<67, 189, 52>>, <<67, 209, 82>>,
   <<67, 213, 93>>, <<67, 345, 129>>, <<70, 192, 68>>, <<70, 220, 98>>, <<71, 192, 69>>,
   <<71, 220, 98>>, <<72, 143, 36>>, <<72, 188, 51>>, <<72, 209, 91>>, <<72, 213, 95>>,
   <<72, 232, 108>>, <<73, 143, 36>>, <<73, 188, 51>>, <<73, 209, 92>>, <<73, 213, 96>>,
   <<73, 232, 108>>, <<74, 143, 37>>, <<74, 188, 52>>, <<74, 209, 93>>, <<74, 213, 97>>,
   <<74, 232, 110>>, <<75, 149, 40>>, <<75, 187, 55>>, <<75, 207, 78>>, <<75, 214, 100>>,
   <<75, 339, 131>>, <<76, 187, 55>>, <<76, 207, 79>>, <<77, 187, 60>>, <<77, 215, 102>>,
   <<78, 149, 42>>, <<78, 187, 60>>, <<78, 191, 75>>, <<78, 215, 103>>, <<78, 339, 139>>,
   <<79, 149, 43>>, <<79, 187, 61>>, <<79, 191, 76>>, <<79, 215, 104>>, <<81, 143, 39>>,
   <<81, 189, 66>>, <<81, 345, 141>>, <<82, 143, 39>>, <<82, 189, 67>>, <<82, 345, 143>>,
   <<83, 185, 58>>, <<83, 208, 99>>, <<84, 132, 33>>, <<84, 182, 54>>, <<84, 222, 111>>,
   <<84, 314, 130>>, <<84, 361, 153>>, <<85, 132, 33>>, <<85, 182, 54>>, <<85, 186, 60>>,
   <<85, 214, 103>>, <<85, 222, 112>>, <<85, 314, 131>>, <<85, 361, 154>>, <<86, 132, 33>>,
   <<86, 182, 55>>, <<86, 186, 60>>, <<86, 214, 103>>, <<86, 222, 113>>, <<86, 314, 132>>,
   <<86, 361, 156>>, <<87, 132, 34>>, <<87, 182, 56>>, <<87, 186, 61>>, <<87, 222, 114>>,
   <<87, 314, 133>>, <<87, 361, 157>>, <<88, 132, 35>>, <<88, 182, 56>>, <<88, 222, 115>>,
   <<88, 314, 134>>, <<88, 361, 158>>, <<89, 132, 35>>, <<89, 182, 56>>, <<89, 222, 116>>,
   <<89, 314, 135>>, <<89, 361, 159>>, <<90, 185, 59>>, <<90, 192, 83>>, <<92, 143, 41>>,
   <<92, 188, 66>>, <<92, 189, 73>>, <<92, 232, 119>>, <<92, 345, 146>>, <<93, 143, 41>>,
   <<93, 188, 67>>, <<93, 189, 74>>, <<93, 232, 119>>, <<93, 345, 148>>, <<97, 188, 74>>,
   <<99, 185, 71>>, <<99, 220, 117>>, <<100, 187, 75>>, <<101, 149, 45>>, <<101, 187, 75>>,
   <<101, 339, 149>>, <<103, 149, 46>>, <<103, 186, 78>>, <<103, 187, 86>>, <<103, 230, 121>>,
   <<103, 339, 155>>, <<104, 186, 79>>, <<104, 187, 86>>, <<104, 230, 122>>, <<105, 179, 63>>,
   <<105, 354, 169>>, <<107, 185, 90>>, <<109, 180, 74>>, <<109, 209, 119>>, <<110, 180, 74>>,
   <<110, 209, 120>>, <<112, 182, 85>>, <<113, 182, 86>>, <<114, 182, 87>>, <<115, 182, 88>>,
   <<117, 185, 98>>, <<117, 227, 124>>, <<119, 143, 49>>, <<119, 180, 92>>, <<119, 189, 109>>,
   <<119, 267, 142>>, <<119, 345, 172>>, <<120, 143, 50>>, <<120, 180, 94>>,
   <<120, 189, 110>>, <<120, 267, 144>>, <<120, 345, 174>>, <<121, 181, 103>>,
   <<121, 339, 176>>, <<122, 181, 104>>, <<128, 143, 66>>, <<128, 209, 141>>,
   <<128, 213, 146>>, <<129, 143, 67>>, <<129, 209, 143>>, <<129, 213, 148>>,
   <<130, 132, 54>>, <<130, 222, 153>>, <<130, 361, 193>>, <<131, 132, 54>>, <<131, 149, 75>>,
   <<131, 156, 85>>, <<131, 207, 138>>, <<131, 222, 154>>, <<131, 361, 195>>,
   <<132, 132, 55>>, <<132, 149, 75>>, <<132, 156, 86>>, <<132, 207, 139>>, <<132, 214, 149>>,
   <<132, 222, 156>>, <<132, 361, 198>>, <<133, 132, 56>>, <<133, 156, 87>>,
   <<133, 222, 157>>, <<133, 361, 204>>, <<134, 132, 56>>, <<134, 156, 88>>,
   <<134, 222, 158>>, <<134, 361, 206>>, <<136, 152, 83>>, <<136, 208, 145>>,
   <<137, 152, 90>>, <<137, 192, 136>>, <<139, 139, 63>>, <<139, 149, 79>>, <<139, 191, 132>>,
   <<139, 198, 139>>, <<139, 215, 156>>, <<139, 234, 169>>, <<139, 354, 198>>,
   <<141, 143, 81>>, <<141, 189, 128>>, <<141, 345, 195>>, <<142, 173, 119>>,
   <<142, 345, 197>>, <<143, 143, 82>>, <<143, 173, 119>>, <<143, 189, 129>>,
   <<143, 345, 198>>, <<145, 152, 99>>, <<145, 220, 166>>, <<146, 143, 92>>,
   <<146, 188, 128>>, <<146, 232, 171>>, <<147, 143, 92>>, <<147, 188, 128>>,
   <<147, 232, 172>>, <<148, 143, 93>>, <<148, 188, 129>>, <<148, 232, 173>>,
   <<149, 149, 101>>, <<149, 187, 132>>, <<149, 339, 198>>, <<152, 152, 107>>,
   <<152, 185, 137>>, <<154, 132, 85>>, <<154, 182, 131>>, <<154, 314, 195>>,
   <<155, 149, 103>>, <<155, 230, 176>>, <<156, 132, 86>>, <<156, 149, 103>>,
   <<156, 182, 132>>, <<156, 186, 139>>, <<156, 230, 177>>, <<156, 314, 198>>,
   <<157, 132, 87>>, <<157, 182, 133>>, <<157, 314, 204>>, <<158, 132, 88>>,
   <<158, 182, 134>>, <<158, 314, 206>>, <<166, 152, 117>>, <<166, 227, 178>>,
   <<169, 139, 105>>, <<169, 179, 139>>, <<169, 278, 198>>, <<172, 143, 119>>,
   <<172, 180, 147>>, <<172, 267, 197>>, <<173, 143, 119>>, <<173, 180, 148>>,
   <<173, 267, 198>>, <<176, 149, 121>>, <<176, 251, 197>>, <<177, 149, 122>>,
   <<177, 181, 156>>, <<177, 251, 198>>, <<178, 152, 124>>, <<178, 238, 198>>,
   <<195, 132, 131>>, <<195, 156, 154>>, <<195, 366, 365>>, <<197, 143, 142>>,
   <<197, 173, 172>>, <<197, 280, 279>>, <<198, 132, 132>>, <<198, 139, 139>>,
   <<198, 143, 143>>, <<198, 149, 149>>, <<198, 152, 152>>, <<198, 156, 156>>,
   <<198, 169, 169>>, <<198, 173, 173>>, <<198, 177, 177>>, <<198, 280, 280>>,
   <<198, 366, 366>>, <<204, 132, 133>>, <<204, 156, 157>>, <<204, 366, 367>>,
   <<206, 132, 134>>, <<206, 156, 158>>, <<206, 366, 368>>, <<280, 168, 198>>,
   <<366, 126, 198>>}
F64SubRows ==
  {<<129, 143, 189>>, <<129, 148, 188>>, <<132, 139, 191>>, <<132, 149, 187>>,
   <<132, 156, 182>>, <<132, 198, 132>>, <<136, 137, 192>>, <<137, 152, 185>>,
   <<139, 132, 207>>, <<139, 139, 198>>, <<139, 156, 186>>, <<139, 169, 179>>,
   <<139, 198, 139>>, <<143, 129, 209>>, <<143, 198, 143>>, <<145, 136, 208>>,
   <<148, 129, 213>>, <<148, 173, 180>>, <<149, 132, 214>>, <<149, 198, 149>>,
   <<152, 198, 152>>, <<156, 132, 222>>, <<156, 139, 215>>, <<156, 177, 181>>,
   <<156, 198, 156>>, <<166, 145, 220>>, <<169, 139, 234>>, <<169, 198, 169>>,
   <<173, 148, 232>>, <<173, 198, 173>>, <<177, 156, 230>>, <<177, 198, 177>>,
   <<178, 166, 227>>, <<198, 129, 362>>, <<198, 132, 361>>, <<198, 136, 358>>,
   <<198, 137, 357>>, <<198, 139, 354>>, <<198, 143, 345>>, <<198, 145, 344>>,
   <<198, 148, 340>>, <<198, 149, 339>>, <<198, 152, 324>>, <<198, 156, 314>>,
   <<198, 166, 294>>, <<198, 169, 278>>, <<198, 173, 267>>, <<198, 177, 251>>,
   <<198, 178, 238>>, <<198, 198, 198>>, <<198, 280, 168>>, <<198, 366, 126>>,
   <<238, 152, 380>>, <<251, 149, 389>>, <<267, 143, 403>>, <<278, 139, 412>>,
   <<280, 198, 280>>, <<294, 137, 422>>, <<294, 152, 406>>, <<314, 132, 430>>,
   <<314, 149, 413>>, <<324, 136, 431>>, <<324, 137, 429>>, <<324, 145, 421>>,
   <<324, 152, 411>>, <<324, 166, 406>>, <<324, 178, 380>>, <<339, 132, 434>>,
   <<339, 139, 433>>, <<339, 149, 420>>, <<339, 156, 413>>, <<339, 177, 389>>,
   <<340, 129, 435>>, <<340, 143, 424>>, <<344, 136, 437>>, <<344, 137, 436>>,
   <<344, 152, 421>>, <<345, 129, 438>>, <<345, 143, 432>>, <<345, 148, 424>>,
   <<345, 173, 403>>, <<354, 132, 444>>, <<354, 139, 440>>, <<354, 149, 433>>,
   <<354, 169, 412>>, <<357, 136, 446>>, <<357, 137, 445>>, <<357, 145, 436>>,
   <<357, 152, 429>>, <<357, 166, 422>>, <<358, 136, 447>>, <<358, 137, 446>>,
   <<358, 145, 437>>, <<358, 152, 431>>, <<361, 132, 448>>, <<361, 139, 444>>,
   <<361, 149, 434>>, <<361, 156, 430>>, <<362, 129, 449>>, <<362, 143, 438>>,
   <<362, 148, 435>>, <<366, 198, 366>>, <<413, 149, 454>>, <<420, 132, 459>>,
   <<420, 139, 457>>, <<420, 149, 455>>, <<420, 156, 454>>, <<424, 143, 458>>,
   <<432, 129, 461>>, <<432, 143, 460>>, <<432, 148, 458>>, <<433, 132, 462>>,
   <<433, 149, 457>>, <<434, 132, 464>>, <<434, 139, 463>>, <<434, 149, 459>>,
   <<438, 129, 466>>, <<438, 143, 461>>, <<440, 139, 465>>, <<444, 149, 463>>,
   <<448, 132, 467>>, <<448, 149, 464>>, <<449, 143, 466>>, <<455, 132, 472>>,
   <<455, 139, 470>>, <<455, 149, 468>>, <<457, 149, 469>>, <<459, 132, 475>>,
   <<459, 149, 471>>, <<460, 129, 476>>, <<460, 143, 473>>, <<461, 143, 476>>,
   <<464, 149, 474>>, <<465, 139, 477>>, <<473, 143, 478>>}
F64MulRows ==
  {<<2, 150, 443>>, <<3, 150, 439>>, <<4, 139, 440>>, <<5, 150, 418>>, <<6, 150, 417>>,
   <<7, 150, 417>>, <<8, 150, 414>>, <<9, 160, 405>>, <<10, 150, 409>>, <<11, 150, 408>>,
   <<12, 160, 401>>, <<14, 160, 399>>, <<15, 160, 399>>, <<16, 160, 393>>, <<17, 150, 397>>,
   <<18, 150, 396>>, <<19, 123, 442>>, <<20, 123, 441>>, <<21, 123, 440>>, <<21, 160, 383>>,
   <<22, 123, 439>>, <<23, 150, 392>>, <<24, 150, 391>>, <<25, 150, 390>>, <<26, 139, 407>>,
   <<27, 160, 373>>, <<28, 160, 370>>, <<29, 160, 369>>, <<30, 150, 388>>, <<31, 150, 387>>,
   <<32, 123, 428>>, <<33, 123, 427>>, <<34, 123, 426>>, <<35, 123, 425>>, <<36, 150, 386>>,
   <<37, 150, 385>>, <<38, 150, 384>>, <<39, 150, 381>>, <<40, 160, 363>>, <<41, 150, 379>>,
   <<42, 160, 360>>, <<43, 160, 359>>, <<45, 160, 354>>, <<46, 160, 347>>, <<47, 160, 346>>,
   <<49, 150, 356>>, <<50, 150, 355>>, <<51, 150, 343>>, <<52, 150, 342>>, <<53, 150, 341>>,
   <<54, 123, 395>>, <<54, 160, 330>>, <<55, 123, 394>>, <<55, 160, 329>>, <<56, 123, 393>>,
   <<56, 160, 327>>, <<57, 161, 308>>, <<58, 161, 306>>, <<59, 161, 305>>, <<60, 160, 320>>,
   <<61, 160, 319>>, <<62, 160, 318>>, <<63, 63, 440>>, <<63, 139, 354>>, <<63, 160, 313>>,
   <<64, 160, 312>>, <<65, 150, 337>>, <<66, 150, 336>>, <<67, 150, 335>>, <<68, 161, 298>>,
   <<69, 161, 298>>, <<70, 161, 296>>, <<71, 161, 295>>, <<72, 150, 334>>, <<73, 150, 333>>,
   <<74, 150, 332>>, <<75, 160, 307>>, <<76, 160, 307>>, <<77, 160, 304>>, <<78, 160, 303>>,
   <<79, 160, 302>>, <<80, 150, 323>>, <<81, 150, 322>>, <<82, 150, 321>>, <<83, 161, 285>>,
   <<84, 123, 377>>, <<85, 123, 377>>, <<85, 160, 301>>, <<86, 123, 376>>, <<86, 160, 300>>,
   <<87, 123, 375>>, <<87, 160, 299>>, <<88, 123, 375>>, <<89, 123, 374>>, <<90, 161, 284>>,
   <<91, 150, 317>>, <<92, 150, 316>>, <<93, 150, 316>>, <<94, 150, 315>>, <<95, 150, 311>>,
   <<96, 150, 310>>, <<97, 150, 309>>, <<98, 161, 274>>, <<99, 161, 273>>, <<100, 160, 289>>,
   <<101, 160, 288>>, <<102, 160, 282>>, <<103, 160, 282>>, <<104, 160, 281>>,
   <<105, 139, 326>>, <<107, 161, 271>>, <<108, 150, 293>>, <<109, 150, 292>>,
   <<110, 150, 292>>, <<111, 123, 353>>, <<112, 123, 352>>, <<113, 123, 351>>,
   <<114, 123, 350>>, <<115, 123, 349>>, <<116, 123, 348>>, <<117, 161, 270>>,
   <<119, 150, 276>>, <<120, 150, 275>>, <<121, 160, 266>>, <<122, 160, 265>>,
   <<124, 161, 250>>, <<127, 150, 256>>, <<128, 150, 255>>, <<129, 150, 254>>,
   <<130, 123, 291>>, <<131, 123, 290>>, <<131, 160, 248>>, <<132, 123, 289>>,
   <<132, 160, 247>>, <<133, 123, 288>>, <<134, 123, 287>>, <<135, 123, 286>>,
   <<136, 161, 233>>, <<137, 161, 231>>, <<138, 160, 241>>, <<139, 63, 354>>,
   <<139, 139, 264>>, <<139, 160, 240>>, <<141, 150, 245>>, <<142, 150, 244>>,
   <<143, 150, 243>>, <<144, 150, 242>>, <<145, 161, 228>>, <<146, 150, 237>>,
   <<147, 150, 236>>, <<148, 150, 235>>, <<149, 160, 229>>, <<152, 161, 223>>,
   <<153, 123, 263>>, <<154, 123, 262>>, <<155, 160, 225>>, <<156, 123, 261>>,
   <<156, 160, 224>>, <<157, 123, 259>>, <<158, 123, 258>>, <<159, 123, 257>>,
   <<166, 161, 221>>, <<169, 139, 226>>, <<171, 150, 219>>, <<172, 150, 218>>,
   <<173, 150, 217>>, <<174, 150, 216>>, <<176, 160, 212>>, <<177, 160, 211>>,
   <<178, 161, 210>>, <<193, 123, 205>>, <<195, 123, 203>>, <<195, 150, 202>>,
   <<197, 150, 201>>, <<197, 160, 200>>, <<198, 63, 198>>, <<198, 123, 198>>,
   <<198, 139, 198>>, <<198, 150, 198>>, <<198, 160, 198>>, <<198, 161, 198>>,
   <<204, 123, 196>>, <<206, 123, 194>>, <<223, 0, 152>>, <<229, 1, 149>>, <<244, 3, 143>>,
   <<264, 4, 139>>, <<271, 13, 137>>, <<279, 150, 184>>, <<280, 150, 183>>, <<288, 20, 132>>,
   <<322, 44, 129>>, <<338, 48, 136>>, <<354, 63, 139>>, <<365, 123, 165>>, <<366, 123, 164>>,
   <<367, 123, 163>>, <<368, 123, 162>>, <<371, 106, 145>>, <<381, 118, 148>>,
   <<393, 125, 156>>, <<402, 140, 166>>, <<407, 151, 169>>, <<410, 167, 173>>,
   <<416, 170, 177>>, <<419, 175, 178>>, <<440, 198, 198>>, <<450, 239, 252>>,
   <<451, 253, 268>>, <<452, 269, 280>>, <<453, 283, 325>>, <<456, 331, 366>>,
   <<465, 378, 423>>}
F64DivRows ==
  {<<63, 440, 63>>, <<63, 467, 123>>, <<63, 477, 139>>, <<63, 478, 150>>, <<63, 479, 160>>,
   <<63, 480, 161>>, <<63, 487, 190>>, <<198, 440, 198>>, <<198, 467, 198>>,
   <<198, 477, 198>>, <<198, 478, 198>>, <<198, 479, 198>>, <<198, 480, 198>>,
   <<238, 480, 210>>, <<251, 479, 211>>, <<267, 478, 217>>, <<278, 477, 226>>,
   <<294, 480, 221>>, <<314, 467, 260>>, <<314, 479, 224>>, <<324, 480, 223>>,
   <<339, 479, 229>>, <<340, 478, 235>>, <<344, 480, 228>>, <<345, 478, 244>>,
   <<354, 440, 354>>, <<354, 477, 264>>, <<354, 479, 240>>, <<357, 480, 231>>,
   <<358, 480, 233>>, <<361, 467, 289>>, <<361, 479, 246>>, <<362, 478, 254>>,
   <<380, 480, 249>>, <<389, 479, 265>>, <<403, 478, 277>>, <<406, 480, 270>>,
   <<411, 480, 271>>, <<412, 477, 326>>, <<413, 479, 281>>, <<420, 479, 288>>,
   <<421, 480, 272>>, <<422, 480, 274>>, <<424, 478, 316>>, <<429, 480, 284>>,
   <<430, 467, 375>>, <<430, 479, 299>>, <<431, 480, 285>>, <<432, 478, 322>>,
   <<433, 479, 302>>, <<434, 479, 307>>, <<435, 478, 332>>, <<436, 480, 295>>,
   <<437, 480, 297>>, <<438, 478, 336>>, <<440, 440, 440>>, <<440, 477, 354>>,
   <<440, 479, 313>>, <<440, 481, 288>>, <<440, 482, 264>>, <<440, 483, 244>>,
   <<440, 484, 229>>, <<440, 485, 223>>, <<444, 479, 320>>, <<445, 480, 305>>,
   <<446, 480, 306>>, <<447, 480, 308>>, <<448, 467, 394>>, <<448, 479, 328>>,
   <<449, 478, 342>>, <<454, 479, 346>>, <<455, 479, 354>>, <<457, 479, 359>>,
   <<458, 478, 379>>, <<459, 479, 363>>, <<460, 478, 381>>, <<461, 478, 388>>,
   <<462, 479, 369>>, <<463, 479, 370>>, <<464, 479, 372>>, <<465, 477, 407>>,
   <<466, 478, 391>>, <<467, 467, 440>>, <<467, 479, 382>>, <<468, 479, 393>>,
   <<469, 479, 398>>, <<470, 479, 399>>, <<471, 479, 400>>, <<472, 479, 401>>,
   <<473, 478, 410>>, <<474, 479, 404>>, <<475, 479, 405>>, <<476, 478, 415>>,
   <<477, 477, 440>>, <<477, 481, 393>>, <<477, 482, 354>>, <<477, 483, 322>>,
   <<477, 484, 288>>, <<477, 485, 271>>, <<478, 478, 440>>, <<481, 477, 465>>,
   <<481, 481, 440>>, <<481, 482, 407>>, <<481, 483, 381>>, <<481, 484, 354>>,
   <<481, 485, 338>>, <<482, 481, 456>>, <<482, 482, 440>>, <<482, 483, 410>>,
   <<482, 484, 393>>, <<482, 485, 371>>, <<483, 482, 453>>, <<483, 483, 440>>,
   <<483, 484, 416>>, <<483, 485, 402>>, <<484, 483, 452>>, <<484, 484, 440>>,
   <<484, 485, 419>>, <<485, 484, 451>>, <<485, 485, 440>>, <<486, 485, 450>>}
F64NearReach ==
  <<0, 1, 2, 3, 4, 7, 7, 7, 8, 9, 10, 11, 12, 13, 15, 15, 16, 18, 18, 22, 22, 22, 22, 25, 25,
    25, 26, 27, 29, 29, 31, 31, 35, 35, 35, 35, 38, 38, 38, 39, 40, 41, 43, 43, 44, 45, 47,
    47, 48, 50, 50, 53, 53, 53, 56, 56, 56, 57, 58, 59, 62, 62, 62, 64, 64, 67, 67, 67, 69,
    69, 71, 71, 74, 74, 74, 76, 76, 79, 79, 79, 82, 82, 82, 83, 89, 89, 89, 89, 89, 89, 90,
    94, 94, 94, 94, 97, 97, 97, 98, 99, 101, 101, 104, 104, 104, 105, 106, 107, 110, 110,
    110, 116, 116, 116, 116, 116, 116, 117, 118, 120, 120, 122, 122, 123, 124, 125, 126, 129,
    129, 129, 135, 135, 135, 135, 135, 135, 136, 137, 139, 139, 140, 144, 144, 144, 144, 145,
    148, 148, 148, 149, 150, 151, 152, 159, 159, 159, 159, 159, 159, 159, 160, 161, 165, 165,
    165, 165, 166, 167, 168, 169, 170, 174, 174, 174, 174, 175, 177, 177, 178, 179, 180, 181,
    182, 184, 184, 185, 186, 187, 188, 189, 190, 191, 192, 206, 206, 206, 206, 206, 206, 206,
    206, 206, 206, 206, 206, 206, 206, 207, 208, 209, 210, 212, 212, 213, 214, 215, 219, 219,
    219, 219, 220, 221, 222, 223, 225, 225, 226, 227, 228, 229, 230, 231, 232, 233, 234, 237,
    237, 237, 238, 239, 241, 241, 245, 245, 245, 245, 248, 248, 248, 250, 250, 251, 252, 253,
    256, 256, 256, 263, 263, 263, 263, 263, 263, 263, 264, 266, 266, 267, 268, 269, 270, 271,
    273, 273, 274, 277, 277, 277, 278, 280, 280, 282, 282, 283, 284, 285, 291, 291, 291, 291,
    291, 291, 293, 293, 294, 296, 296, 298, 298, 301, 301, 301, 304, 304, 304, 305, 306, 307,
    308, 311, 311, 311, 313, 313, 314, 317, 317, 317, 320, 320, 320, 323, 323, 323, 324, 325,
    326, 330, 330, 330, 330, 331, 334, 334, 334, 337, 337, 337, 338, 339, 340, 343, 343, 343,
    344, 345, 347, 347, 353, 353, 353, 353, 353, 353, 354, 356, 356, 357, 358, 360, 360, 361,
    362, 363, 364, 368, 368, 368, 368, 370, 370, 371, 373, 373, 377, 377, 377, 377, 378, 379,
    380, 381, 383, 383, 386, 386, 386, 388, 388, 389, 392, 392, 392, 395, 395, 395, 397, 397,
    399, 399, 401, 401, 402, 403, 405, 405, 406, 407, 408, 410, 410, 411, 412, 413, 415, 415,
    416, 418, 418, 419, 420, 421, 422, 423, 424, 428, 428, 428, 428, 429, 430, 431, 432, 433,
    434, 435, 436, 437, 438, 442, 442, 442, 442, 443, 444, 445, 446, 447, 448, 449, 450, 451,
    452, 453, 454, 455, 456, 457, 458, 459, 460, 461, 463, 463, 464, 465, 466, 467, 468, 470,
    470, 472, 472, 473, 475, 475, 476, 477, 478, 479, 480, 481, 482, 483, 484, 485, 486, 487,
    488>>
\* END F64 TABLES

F64Fn1(rows) == [a \in {r[1] : r \in rows} |-> (CHOOSE r \in rows : r[1] = a)[2]]
F64Fn2(rows) ==
  [p \in {<<r[1], r[2]>> : r \in rows} |->
     (CHOOSE r \in rows : r[1] = p[1] /\ r[2] = p[2])[3]]

F64OfNatFn == F64Fn1(F64OfNatRows)
F64Log2Fn == F64Fn1(F64Log2Rows)
F64AddFn == F64Fn2(F64AddRows)
F64SubFn == F64Fn2(F64SubRows)
F64MulFn == F64Fn2(F64MulRows)
F64DivFn == F64Fn2(F64DivRows)

\* `n as f64`
F64OfNat(n) == F64OfNatFn[n]
\* x.log2()
F64Log2(a) == F64Log2Fn[a]
\* a + b, a - b, a * b, a / b in binary64, round to nearest even
F64Add(a, b) == F64AddFn[<<a, b>>]
F64Sub(a, b) == F64SubFn[<<a, b>>]
F64Mul(a, b) == F64MulFn[<<a, b>>]
F64Div(a, b) == F64DivFn[<<a, b>>]
\* a < b and a.max(b)
F64Lt(a, b) == a < b
F64Max(a, b) == IF a < b THEN b ELSE a
\* |a - b| < 1e-9, the tolerance of "rolling equals rebuild"
F64Near(a, b) == IF a <= b THEN b <= F64NearReach[a + 1] ELSE a <= F64NearReach[b + 1]

(***************************************************************************)
(* Byte slices.                                                            *)
(***************************************************************************)
\* &s[lo..hi]; legal when lo <= hi <= s.len()
SliceOk(s, lo, hi) == 0 <= lo /\ lo <= hi /\ hi <= Len(s)
Slice(s, lo, hi) == SubSeq(s, lo + 1, hi)

(***************************************************************************)
(* encode_kmer: 2 bits per base, first base most significant.  The         *)
(* repository holds the entropy routines three times: in the rustmasker    *)
(* crate (u32 codes, at most 15 bases), in the mask_fastq crate and in the *)
(* older binary of modules/local/maskRead (u16 codes, at most 8 bases).    *)
(* The copies differ in nothing but the width of the code; `crate` says    *)
(* which copy runs.                                                        *)
(***************************************************************************)
VARIABLE crate

Crates == {"rustmasker", "mask_fastq", "maskRead"}

\* `if bases.len() > 15` (rustmasker), `if bases.len() > 8` (the others)
EncodingMax == IF crate = "rustmasker" THEN 15 ELSE 8

BaseBits(base) ==
  CASE base \in {"A", "a"} -> 0
    [] base \in {"C", "c"} -> 1
    [] base \in {"G", "g"} -> 2
    [] base \in {"T", "t"} -> 3
    [] OTHER -> None

\* 4^k: `1 << (2 * k)`
RECURSIVE Pow4(_)
Pow4(k) == IF k = 0 THEN 1 ELSE 4 * Pow4(k - 1)

RECURSIVE encode_bases_low_first(_, _, _)
\* the loop with the bases entering at the high end: the first base ends up
\* in the two lowest bits
encode_bases_low_first(bases, n, encoded) ==
  IF n = Len(bases) THEN encoded
  ELSE LET bits == BaseBits(bases[n + 1])
       IN IF bits = None THEN None
          ELSE encode_bases_low_first(bases, n + 1, encoded + bits * Pow4(n))

RECURSIVE encode_bases(_, _, _)
\* the loop of encode_kmer over bases[n..]; at most EncodingMax bases, so
\* the code never loses a bit and (encoded << 2) | bits is encoded * 4 + bits
encode_bases(bases, n, encoded) ==
  IF n = Len(bases) THEN encoded
  ELSE LET bits == BaseBits(bases[n + 1])
       IN IF bits = None THEN None
          ELSE encode_bases(bases, n + 1, encoded * 4 + bits)

encode_kmer(bases) ==
  IF Len(bases) > EncodingMax THEN None ELSE encode_bases(bases, 0, 0)

(***************************************************************************)
(* The HashMap<u32, usize> of k-mer counts: a function from the codes      *)
(* present to their (positive) counts.                                     *)
(***************************************************************************)
EmptyMap == <<>>

add_kmer(kmer_counts, kmer) ==
  LET encoded == encode_kmer(kmer)
  IN IF encoded = None THEN kmer_counts
     ELSE IF encoded \in DOMAIN kmer_counts
          THEN [kmer_counts EXCEPT ![encoded] = @ + 1]
          ELSE [c \in DOMAIN kmer_counts \cup {encoded} |->
                  IF c = encoded THEN 1 ELSE kmer_counts[c]]

\* Faulty variant of remove_kmer: the key of a count that reached zero
\* stays in the map.
remove_kmer_keeping_key(kmer_counts, kmer) ==
  LET encoded_kmer == encode_kmer(kmer)
  IN IF encoded_kmer = None \/ encoded_kmer \notin DOMAIN kmer_counts THEN kmer_counts
     ELSE [kmer_counts EXCEPT ![encoded_kmer] = @ - 1]

remove_kmer(kmer_counts, kmer) ==
  LET encoded == encode_kmer(kmer)
  IN IF encoded = None \/ encoded \notin DOMAIN kmer_counts THEN kmer_counts
     ELSE IF kmer_counts[encoded] - 1 = 0
          THEN [c \in DOMAIN kmer_counts \ {encoded} |-> kmer_counts[c]]
          ELSE [kmer_counts EXCEPT ![encoded] = @ - 1]

RECURSIVE get_kmers_from(_, _, _, _)
\* the loop `for i in 0..=sequence.len() - k` of get_kmers, from offset i
get_kmers_from(sequence, k, i, kmer_counts) ==
  IF i > Len(sequence) - k THEN kmer_counts
  ELSE get_kmers_from(sequence, k, i + 1,
                      add_kmer(kmer_counts, Slice(sequence, i, i + k)))

get_kmers(sequence, k) ==
  IF Len(sequence) < k THEN EmptyMap
  ELSE get_kmers_from(sequence, k, 0, EmptyMap)

(***************************************************************************)
(* shannon_entropy.  The loop runs over kmer_counts.values() in the        *)
(* iteration order of the HashMap, which is unspecified; `order` lists the *)
(* keys in the order of one iteration.                                     *)
(***************************************************************************)
IterationOrders(kmer_counts) ==
  LET keys == DOMAIN kmer_counts
      n == Cardinality(keys)
  IN {o \in [1..n -> keys] : \A x, y \in 1..n : x # y => o[x] # o[y]}

RECURSIVE entropy_sum(_, _, _, _, _)
entropy_sum(kmer_counts, total_kmers, order, n, entropy) ==
  IF n = Len(order) THEN entropy
  ELSE LET count == kmer_counts[order[n + 1]]
           p == F64Div(F64OfNat(count), F64OfNat(total_kmers))
       IN entropy_sum(kmer_counts, total_kmers, order, n + 1,
                      IF count > 0 THEN F64Sub(entropy, F64Mul(p, F64Log2(p)))
                      ELSE entropy)

\* Faulty variant of shannon_entropy: a window without k-mer positions has
\* the highest entropy instead of the lowest.
shannon_entropy_one_when_empty(kmer_counts, total_kmers, order) ==
  IF total_kmers = 0 THEN F64Name.one
  ELSE LET entropy == entropy_sum(kmer_counts, total_kmers, order, 0, F64Name.zero)
           max_entropy == F64Log2(F64OfNat(total_kmers))
       IN IF F64Lt(F64Name.zero, max_entropy) THEN F64Div(entropy, max_entropy)
          ELSE entropy

shannon_entropy(kmer_counts, total_kmers, order) ==
  IF total_kmers = 0 THEN F64Name.zero
  ELSE LET entropy == entropy_sum(kmer_counts, total_kmers, order, 0, F64Name.zero)
           max_entropy == F64Log2(F64OfNat(total_kmers))
       IN IF F64Lt(F64Name.zero, max_entropy) THEN F64Div(entropy, max_entropy)
          ELSE entropy

\* every value shannon_entropy can return for these counts
shannon_entropies(kmer_counts, total_kmers) ==
  {shannon_entropy(kmer_counts, total_kmers, order) :
     order \in IterationOrders(kmer_counts)}

(***************************************************************************)
(* Painting: `masked_seq[pos] = b'N'; masked_qual[pos] = b'#'` for pos in  *)
(* lo..hi.  Indexing either buffer past its end panics.                   *)
(***************************************************************************)
\* Faulty variants of mask_range, used to show that the properties below
\* depend on it: one that paints the bases and forgets the qualities, and one
\* that pushes the mask bytes onto the buffers instead of overwriting.
mask_range_seq_only(st, lo, hi) ==
  IF \E pos \in lo..(hi - 1) : pos >= Len(st.masked_seq)
  THEN [st EXCEPT !.fault = "index"]
  ELSE [st EXCEPT
          !.masked_seq = [p \in 1..Len(@) |-> IF lo < p /\ p <= hi THEN "N" ELSE @[p]]]

\* one that stops a position early
mask_range_exclusive(st, lo, hi) ==
  IF \E pos \in lo..(hi - 2) : pos >= Len(st.masked_seq) \/ pos >= Len(st.masked_qual)
  THEN [st EXCEPT !.fault = "index"]
  ELSE [st EXCEPT
          !.masked_seq = [p \in 1..Len(@) |-> IF lo < p /\ p < hi THEN "N" ELSE @[p]],
          !.masked_qual = [p \in 1..Len(@) |-> IF lo < p /\ p < hi THEN "#" ELSE @[p]]]

mask_range_push(st, lo, hi) ==
  [st EXCEPT
     !.masked_seq = @ \o [p \in 1..(hi - lo) |-> "N"],
     !.masked_qual = @ \o [p \in 1..(hi - lo) |-> "#"]]

mask_range(st, lo, hi) ==
  IF \E pos \in lo..(hi - 1) :
        pos >= Len(st.masked_seq) \/ pos >= Len(st.masked_qual)
  THEN [st EXCEPT !.fault = "index"]
  ELSE [st EXCEPT
          !.masked_seq = [p \in 1..Len(@) |-> IF lo < p /\ p <= hi THEN "N" ELSE @[p]],
          !.masked_qual = [p \in 1..Len(@) |-> IF lo < p /\ p <= hi THEN "#" ELSE @[p]]]

\* the pair a routine returns, or the panic it ends in (and then no pair)
Returned(st) ==
  IF st.fault = "none"
  THEN [seq |-> st.masked_seq, qual |-> st.masked_qual, fault |-> "none"]
  ELSE [seq |-> <<>>, qual |-> <<>>, fault |-> st.fault]

(***************************************************************************)
(* The short-read fallback shared by mask_sequence and                     *)
(* mask_sequence_array (seq_len < window).                                 *)
(***************************************************************************)
\* Faulty variant of short_total_kmers: the k-mer positions of a full
\* window instead of those of the read.
short_total_kmers_of_window(seq_len, k) == IF seq_len >= k THEN MaxWindow - k + 1 ELSE 0

short_total_kmers(seq_len, k) == IF seq_len >= k THEN seq_len - k + 1 ELSE 0

mask_short(c, st) ==
  LET seq_len == Len(c.sequence)
      kmer_counts == get_kmers(c.sequence, c.k)
      total_kmers == short_total_kmers(seq_len, c.k)
  IN {IF F64Lt(entropy, c.entropy_threshold) THEN mask_range(st, 0, seq_len) ELSE st :
        entropy \in shannon_entropies(kmer_counts, total_kmers)}

(***************************************************************************)
(* mask_sequence: sliding window over a HashMap of counts.                 *)
(***************************************************************************)
window_start_of(i, window) == IF i + 1 >= window THEN i + 1 - window ELSE 0

\* window_end.saturating_sub(k)
saturating_sub(a, b) == IF a >= b THEN a - b ELSE 0

RECURSIVE prime_counts_exclusive(_, _, _, _)
\* Faulty variant of prime_counts: the range of the priming loop is taken
\* exclusive (`..` for `..=`), so the last k-mer of the first window is
\* never counted and its later removal hits another occurrence.
prime_counts_exclusive(c, st, j, last) ==
  IF j >= last \/ st.fault # "none" THEN st
  ELSE IF ~SliceOk(c.sequence, j, j + c.k)
       THEN [st EXCEPT !.fault = "index"]
       ELSE prime_counts_exclusive(c,
              [st EXCEPT !.kmer_counts = add_kmer(@, Slice(c.sequence, j, j + c.k))],
              j + 1, last)

RECURSIVE prime_counts(_, _, _, _)
\* `for j in window_start..=window_end.saturating_sub(k)` of the first full
\* window, from offset j; a slice past the end of the read panics
prime_counts(c, st, j, last) ==
  IF j > last \/ st.fault # "none" THEN st
  ELSE IF ~SliceOk(c.sequence, j, j + c.k)
       THEN [st EXCEPT !.fault = "index"]
       ELSE prime_counts(c,
              [st EXCEPT !.kmer_counts = add_kmer(@, Slice(c.sequence, j, j + c.k))],
              j + 1, last)

\* the two updates of a window that slid forward by one base
slide_counts(c, st, window_start, window_end) ==
  LET seq_len == Len(c.sequence)
      exiting_kmer_pos == window_start - 1
      entering_kmer_pos == window_end - c.k
      removed == IF exiting_kmer_pos + c.k <= seq_len
                 THEN remove_kmer(st.kmer_counts,
                                  Slice(c.sequence, exiting_kmer_pos, exiting_kmer_pos + c.k))
                 ELSE st.kmer_counts
      added == IF entering_kmer_pos < seq_len /\ entering_kmer_pos + c.k <= seq_len
               THEN add_kmer(removed,
                             Slice(c.sequence, entering_kmer_pos, entering_kmer_pos + c.k))
               ELSE removed
  IN IF window_start < 1 \/ window_end < c.k
     THEN [st EXCEPT !.fault = "overflow"]
     ELSE [st EXCEPT !.kmer_counts = added]

window_total_kmers(window, k) == IF window >= k THEN window - k + 1 ELSE 0

\* one iteration of `for i in 0..seq_len`; the set of states it can end in
mask_sequence_iter(c, st, i) ==
  LET window_start == window_start_of(i, c.window)
      window_end == i + 1
      counted == IF st.first_full_window
                 THEN [prime_counts(c, [st EXCEPT !.kmer_counts = EmptyMap],
                                    window_start, saturating_sub(window_end, c.k))
                         EXCEPT !.first_full_window = FALSE]
                 ELSE slide_counts(c, st, window_start, window_end)
      total_kmers == window_total_kmers(c.window, c.k)
  IN IF window_end - window_start < c.window THEN {st}
     ELSE IF counted.fault # "none" THEN {counted}
     ELSE {IF F64Lt(entropy, c.entropy_threshold)
           THEN mask_range(counted, window_start, window_end)
           ELSE counted :
             entropy \in shannon_entropies(counted.kmer_counts, total_kmers)}

\* The iterations with i + 1 < window end in `continue` before they touch
\* anything (lib.rs 137-139, 375-377): the loops below start at the first
\* i whose window is full.
first_full_i(window) == saturating_sub(window, 1)

RECURSIVE mask_sequence_loop(_, _, _)
mask_sequence_loop(c, states, i) ==
  IF i >= Len(c.sequence) THEN states
  ELSE mask_sequence_loop(c,
         UNION {IF st.fault # "none" THEN {st} ELSE mask_sequence_iter(c, st, i) :
                  st \in states},
         i + 1)

Call(sequence, quality, window, entropy_threshold, k) ==
  [sequence |-> sequence, quality |-> quality, window |-> window,
   entropy_threshold |-> entropy_threshold, k |-> k]

\* the set of results mask_sequence can return, one per iteration order of
\* the HashMap at each window
mask_sequence(sequence, quality, window, entropy_threshold, k) ==
  LET c == Call(sequence, quality, window, entropy_threshold, k)
      st0 == [masked_seq |-> sequence, masked_qual |-> quality,
              kmer_counts |-> EmptyMap, first_full_window |-> TRUE,
              fault |-> "none"]
  IN IF Len(sequence) < window
     THEN {Returned(st) : st \in mask_short(c, st0)}
     ELSE {Returned(st) : st \in mask_sequence_loop(c, {st0}, first_full_i(window))}

(***************************************************************************)
(* ArrayEntropyTracker.  counts and count_counts are Vec<u16>; a u16 that  *)
(* would leave 0..U16Max, an index past the end of a Vec and a failed      *)
(* assert! end the call (fault).                                           *)
(***************************************************************************)
\* entropy_table[count], the Vec<f64> that new fills for count in
\* 0..=window_kmers+1 and that nothing writes afterwards; the model reads an
\* entry from the expression that filled it
entropy_table(window_kmers, count) ==
  IF count = 0 THEN F64Name.zero
  ELSE LET p == F64Div(F64OfNat(count), F64OfNat(window_kmers))
       IN F64Mul(p, F64Log2(p))

ArrayEntropyTracker_new(k, window) ==
  LET window_kmers == window - k + 1
      kmer_space == Pow4(k)
      entropy_mult == F64Div(F64Name.minus_one, F64Log2(F64OfNat(window_kmers)))
      count_counts == [j \in 0..(window_kmers + 1) |->
                         IF j = 0 THEN window_kmers % (U16Max + 1) ELSE 0]
  IN IF ~(k > 0 /\ k <= EncodingMax) \/ ~(window > k)
     THEN [fault |-> "assert"]
     ELSE [window_kmers |-> window_kmers,
           counts |-> [code \in 0..(kmer_space - 1) |-> 0],
           count_counts |-> count_counts,
           entropy_mult |-> entropy_mult,
           current_esum |-> F64Name.zero,
           unique |-> 0,
           fault |-> "none"]

\* Faulty variant of add_kmer: unique grows with every occurrence, not with
\* every new code.
add_kmer_counting_occurrences(t, kmer_code) ==
  LET old_count == t.counts[kmer_code]
      new_count == old_count + 1
  IN CASE kmer_code \notin DOMAIN t.counts -> [t EXCEPT !.fault = "index"]
       [] old_count + 1 > U16Max -> [t EXCEPT !.fault = "overflow"]
       [] old_count \notin DOMAIN t.count_counts -> [t EXCEPT !.fault = "index"]
       [] t.count_counts[old_count] = 0 -> [t EXCEPT !.fault = "overflow"]
       [] new_count \notin DOMAIN t.count_counts -> [t EXCEPT !.fault = "index"]
       [] t.count_counts[new_count] + 1 > U16Max -> [t EXCEPT !.fault = "overflow"]
       [] OTHER ->
          [t EXCEPT
             !.unique = @ + 1,
             !.count_counts = [@ EXCEPT ![old_count] = @ - 1, ![new_count] = @ + 1],
             !.counts = [@ EXCEPT ![kmer_code] = new_count],
             !.current_esum = F64Add(@, F64Sub(entropy_table(t.window_kmers, new_count),
                                               entropy_table(t.window_kmers, old_count)))]

ArrayEntropyTracker_add_kmer(t, kmer_code) ==
  LET old_count == t.counts[kmer_code]
      new_count == old_count + 1
  IN CASE kmer_code \notin DOMAIN t.counts -> [t EXCEPT !.fault = "index"]
       [] old_count + 1 > U16Max -> [t EXCEPT !.fault = "overflow"]
       [] old_count \notin DOMAIN t.count_counts -> [t EXCEPT !.fault = "index"]
       [] t.count_counts[old_count] = 0 -> [t EXCEPT !.fault = "overflow"]
       [] new_count \notin DOMAIN t.count_counts -> [t EXCEPT !.fault = "index"]
       [] t.count_counts[new_count] + 1 > U16Max -> [t EXCEPT !.fault = "overflow"]
       [] OTHER ->
          [t EXCEPT
             !.unique = IF old_count = 0 THEN @ + 1 ELSE @,
             !.count_counts = [@ EXCEPT ![old_count] = @ - 1, ![new_count] = @ + 1],
             !.counts = [@ EXCEPT ![kmer_code] = new_count],
             !.current_esum = F64Add(@, F64Sub(entropy_table(t.window_kmers, new_count),
                                               entropy_table(t.window_kmers, old_count)))]

\* A faulty variant of remove_kmer without the early return: a count of 0
\* is decremented (`old_count - 1` on a u16 that is 0).
remove_kmer_unguarded(t, kmer_code) ==
  LET old_count == t.counts[kmer_code]
      new_count == old_count - 1
  IN CASE kmer_code \notin DOMAIN t.counts -> [t EXCEPT !.fault = "index"]
       [] old_count = 0 -> [t EXCEPT !.fault = "overflow"]
       [] old_count \notin DOMAIN t.count_counts -> [t EXCEPT !.fault = "index"]
       [] t.count_counts[old_count] = 0 -> [t EXCEPT !.fault = "overflow"]
       [] t.count_counts[new_count] + 1 > U16Max -> [t EXCEPT !.fault = "overflow"]
       [] new_count = 0 /\ t.unique = 0 -> [t EXCEPT !.fault = "overflow"]
       [] OTHER ->
          [t EXCEPT
             !.count_counts = [@ EXCEPT ![old_count] = @ - 1, ![new_count] = @ + 1],
             !.counts = [@ EXCEPT ![kmer_code] = new_count],
             !.current_esum = F64Add(@, F64Sub(entropy_table(t.window_kmers, new_count),
                                               entropy_table(t.window_kmers, old_count))),
             !.unique = IF new_count = 0 THEN @ - 1 ELSE @]

\* A faulty variant of remove_kmer, used to show that the comparison of the
\* rolling entropy with the rebuilt one depends on it: the counts are updated
\* and the running sum is not.
remove_kmer_keeping_esum(t, kmer_code) ==
  IF kmer_code \notin DOMAIN t.counts THEN [t EXCEPT !.fault = "index"]
  ELSE IF t.counts[kmer_code] = 0 THEN t
  ELSE [t EXCEPT
          !.count_counts = [@ EXCEPT ![t.counts[kmer_code]] = @ - 1,
                                     ![t.counts[kmer_code] - 1] = @ + 1],
          !.counts = [@ EXCEPT ![kmer_code] = @ - 1],
          !.unique = IF t.counts[kmer_code] = 1 THEN @ - 1 ELSE @]

ArrayEntropyTracker_remove_kmer(t, kmer_code) ==
  LET old_count == t.counts[kmer_code]
      new_count == old_count - 1
  IN CASE kmer_code \notin DOMAIN t.counts -> [t EXCEPT !.fault = "index"]
       [] old_count = 0 -> t
       [] old_count \notin DOMAIN t.count_counts -> [t EXCEPT !.fault = "index"]
       [] t.count_counts[old_count] = 0 -> [t EXCEPT !.fault = "overflow"]
       [] t.count_counts[new_count] + 1 > U16Max -> [t EXCEPT !.fault = "overflow"]
       [] new_count = 0 /\ t.unique = 0 -> [t EXCEPT !.fault = "overflow"]
       [] OTHER ->
          [t EXCEPT
             !.count_counts = [@ EXCEPT ![old_count] = @ - 1, ![new_count] = @ + 1],
             !.counts = [@ EXCEPT ![kmer_code] = new_count],
             !.current_esum = F64Add(@, F64Sub(entropy_table(t.window_kmers, new_count),
                                               entropy_table(t.window_kmers, old_count))),
             !.unique = IF new_count = 0 THEN @ - 1 ELSE @]

ArrayEntropyTracker_entropy(t) ==
  LET e == F64Mul(t.current_esum, t.entropy_mult)
  IN F64Max(e, F64Name.zero)

\* Faulty variant of clear: every cell of count_counts is zeroed and
\* count_counts[0] is not set again.
clear_without_window_kmers(t) ==
  [t EXCEPT
     !.counts = [code \in DOMAIN @ |-> 0],
     !.count_counts = [j \in DOMAIN @ |-> 0],
     !.current_esum = F64Name.zero,
     !.unique = 0]

ArrayEntropyTracker_clear(t) ==
  [t EXCEPT
     !.counts = [code \in DOMAIN @ |-> 0],
     !.count_counts = [j \in DOMAIN @ |->
                         IF j = 0 THEN t.window_kmers % (U16Max + 1) ELSE 0],
     !.current_esum = F64Name.zero,
     !.unique = 0]

ArrayEntropyTracker_unique(t) == t.unique

\* Faulty variant of tracker_add_slice: the k-mer is encoded and its code is
\* never handed to add_kmer.
tracker_add_slice_dropped(c, st, pos) ==
  IF ~SliceOk(c.sequence, pos, pos + c.k) THEN [st EXCEPT !.fault = "index"] ELSE st

(***************************************************************************)
(* mask_sequence_array: sliding window over the tracker.                   *)
(***************************************************************************)
\* `if let Some(kmer_code) = encode_kmer(..) { tracker.add_kmer(kmer_code) }`
tracker_add_slice(c, st, pos) ==
  LET kmer_code == encode_kmer(Slice(c.sequence, pos, pos + c.k))
  IN IF ~SliceOk(c.sequence, pos, pos + c.k) THEN [st EXCEPT !.fault = "index"]
     ELSE IF kmer_code = None THEN st
     ELSE LET t == ArrayEntropyTracker_add_kmer(st.tracker, kmer_code)
          IN [st EXCEPT !.tracker = t, !.fault = t.fault]

tracker_remove_slice(c, st, pos) ==
  LET kmer_code == encode_kmer(Slice(c.sequence, pos, pos + c.k))
  IN IF ~SliceOk(c.sequence, pos, pos + c.k) THEN [st EXCEPT !.fault = "index"]
     ELSE IF kmer_code = None THEN st
     ELSE LET t == ArrayEntropyTracker_remove_kmer(st.tracker, kmer_code)
          IN [st EXCEPT !.tracker = t, !.fault = t.fault]

RECURSIVE prime_tracker(_, _, _, _)
prime_tracker(c, st, j, last) ==
  IF j > last \/ st.fault # "none" THEN st
  ELSE prime_tracker(c, tracker_add_slice(c, st, j), j + 1, last)

slide_tracker(c, st, window_start, window_end) ==
  LET seq_len == Len(c.sequence)
      exiting_kmer_pos == window_start - 1
      entering_kmer_pos == window_end - c.k
      removed == IF exiting_kmer_pos + c.k <= seq_len
                 THEN tracker_remove_slice(c, st, exiting_kmer_pos)
                 ELSE st
  IN IF window_start < 1 \/ window_end < c.k
     THEN [st EXCEPT !.fault = "overflow"]
     ELSE IF removed.fault # "none" THEN removed
     ELSE IF entering_kmer_pos < seq_len /\ entering_kmer_pos + c.k <= seq_len
          THEN tracker_add_slice(c, removed, entering_kmer_pos)
          ELSE removed

mask_sequence_array_iter(c, st, i) ==
  LET window_start == window_start_of(i, c.window)
      window_end == i + 1
      counted == IF st.first_full_window
                 THEN [prime_tracker(c,
                          [st EXCEPT !.tracker = ArrayEntropyTracker_clear(@)],
                          window_start, saturating_sub(window_end, c.k))
                         EXCEPT !.first_full_window = FALSE]
                 ELSE slide_tracker(c, st, window_start, window_end)
      entropy == ArrayEntropyTracker_entropy(counted.tracker)
  IN IF window_end - window_start < c.window THEN st
     ELSE IF counted.fault # "none" THEN counted
     ELSE IF F64Lt(entropy, c.entropy_threshold)
          THEN mask_range(counted, window_start, window_end)
          ELSE counted

RECURSIVE mask_sequence_array_loop(_, _, _)
mask_sequence_array_loop(c, st, i) ==
  IF i >= Len(c.sequence) \/ st.fault # "none" THEN st
  ELSE mask_sequence_array_loop(c, mask_sequence_array_iter(c, st, i), i + 1)

\* the set of results mask_sequence_array can return (the short-read
\* fallback goes through the HashMap)
mask_sequence_array(sequence, quality, window, entropy_threshold, k) ==
  LET c == Call(sequence, quality, window, entropy_threshold, k)
      st0 == [masked_seq |-> sequence, masked_qual |-> quality,
              kmer_counts |-> EmptyMap, first_full_window |-> TRUE,
              fault |-> "none"]
      tracker == ArrayEntropyTracker_new(k, window)
      st1 == [masked_seq |-> sequence, masked_qual |-> quality,
              tracker |-> tracker, first_full_window |-> TRUE,
              fault |-> tracker.fault]
  IN IF Len(sequence) < window
     THEN {Returned(st) : st \in mask_short(c, st0)}
     ELSE {Returned(mask_sequence_array_loop(c, st1, first_full_i(window)))}

\* array tracker up to k = 7, HashMap above
mask_sequence_auto(sequence, quality, window, entropy_threshold, k) ==
  IF k <= 7
  THEN mask_sequence_array(sequence, quality, window, entropy_threshold, k)
  ELSE mask_sequence(sequence, quality, window, entropy_threshold, k)

(***************************************************************************)
(* SDUST.                                                                  *)
(***************************************************************************)
encode_triplet(bases) ==
  IF Len(bases) # 3 THEN None ELSE encode_bases(bases, 0, 0)

\* counts[triplet] after the counting loop of score_window
triplet_count(triplets, word) == Cardinality({n \in 1..Len(triplets) : triplets[n] = word})

RECURSIVE score_sum(_, _)
\* the loop `for count in counts.iter()` of score_window over the words of a set
score_sum(triplets, words) ==
  IF words = {} THEN 0
  ELSE LET word == CHOOSE w \in words : TRUE
           c == triplet_count(triplets, word)
       IN (IF c > 1 THEN (c * (c - 1)) \div 2 ELSE 0) + score_sum(triplets, words \ {word})

SdustScorer_score_window(triplets) ==
  score_sum(triplets, {triplets[n] : n \in 1..Len(triplets)})

\* A faulty variant of should_mask, used to show that the flag rule below
\* depends on it: a score that only equals the bound passes.
should_mask_inclusive(threshold, score, window_length) ==
  IF window_length = 0 THEN FALSE
  ELSE I32Mul(score, 10) >= I32Mul(threshold, window_length)

\* `score * 10 > self.threshold * window_length as i32`, both products in i32
SdustScorer_should_mask(threshold, score, window_length) ==
  IF window_length = 0 THEN FALSE
  ELSE I32Mul(score, 10) > I32Mul(threshold, window_length)

\* a product of should_mask leaves the i32 range: a panic in a build with
\* overflow checks, a wrapped value in a build without
should_mask_overflows(threshold, score, window_length) ==
  /\ window_length # 0
  /\ ~I32MulFits(score, 10) \/ ~I32MulFits(threshold, window_length)

NoRegion == [start |-> None, end |-> None]

\* A faulty variant of dust_window_step: a flagged window that touches the
\* current region (`region.end == start_pos`) starts a region of its own.
dust_window_step_strict(triplets, positions, window_size, threshold, r, i) ==
  LET window == Slice(triplets, i, i + window_size)
      score == SdustScorer_score_window(window)
      start_pos == positions[i + 1]
      end_pos == positions[i + window_size] + 3
  IN IF ~SdustScorer_should_mask(threshold, score, Len(window)) THEN r
     ELSE IF r.current_region # NoRegion /\ r.current_region.end > start_pos
          THEN [r EXCEPT !.current_region.end = IF @ >= end_pos THEN @ ELSE end_pos]
          ELSE [regions |-> IF r.current_region # NoRegion
                            THEN Append(r.regions, r.current_region)
                            ELSE r.regions,
                current_region |-> [start |-> start_pos, end |-> end_pos]]

\* one iteration of the window loop of find_dust_regions; r holds the
\* regions pushed so far and the current region
dust_window_step(triplets, positions, window_size, threshold, r, i) ==
  LET window == Slice(triplets, i, i + window_size)
      score == SdustScorer_score_window(window)
      start_pos == positions[i + 1]
      end_pos == positions[i + window_size] + 3
  IN IF ~SdustScorer_should_mask(threshold, score, Len(window)) THEN r
     ELSE IF r.current_region # NoRegion /\ r.current_region.end >= start_pos
          THEN [r EXCEPT !.current_region.end = IF @ >= end_pos THEN @ ELSE end_pos]
          ELSE [regions |-> IF r.current_region # NoRegion
                            THEN Append(r.regions, r.current_region)
                            ELSE r.regions,
                current_region |-> [start |-> start_pos, end |-> end_pos]]

RECURSIVE dust_window_loop(_, _, _, _, _, _)
dust_window_loop(triplets, positions, window_size, threshold, r, i) ==
  IF i > saturating_sub(Len(triplets), window_size) THEN r
  ELSE dust_window_loop(triplets, positions, window_size, threshold,
         dust_window_step(triplets, positions, window_size, threshold, r, i), i + 1)

\* some call of should_mask in find_dust_regions overflows: the whole list
\* when it is shorter than the window, else one of its windows
find_dust_regions_overflows(triplets, window_size, threshold) ==
  IF Len(triplets) < window_size
  THEN should_mask_overflows(threshold, SdustScorer_score_window(triplets), Len(triplets))
  ELSE \E i \in 0..saturating_sub(Len(triplets), window_size) :
          should_mask_overflows(threshold,
             SdustScorer_score_window(Slice(triplets, i, i + window_size)), window_size)

find_dust_regions(triplets, positions, window_size, threshold) ==
  LET score == SdustScorer_score_window(triplets)
      r == dust_window_loop(triplets, positions, window_size, threshold,
                            [regions |-> <<>>, current_region |-> NoRegion], 0)
  IN IF Len(triplets) < window_size
     THEN IF SdustScorer_should_mask(threshold, score, Len(triplets)) /\ Len(positions) > 0
          THEN <<[start |-> positions[1], end |-> positions[Len(positions)] + 3]>>
          ELSE <<>>
     ELSE IF r.current_region # NoRegion THEN Append(r.regions, r.current_region)
          ELSE r.regions

RECURSIVE apply_masks(_, _)
\* st holds the two buffers; regions are painted in order
apply_masks(st, regions) ==
  IF regions = <<>> \/ st.fault # "none" THEN st
  ELSE LET region == Head(regions)
           end == IF region.end <= Len(st.masked_seq) THEN region.end
                  ELSE Len(st.masked_seq)
       IN apply_masks(mask_range(st, region.start, end), Tail(regions))

\* A faulty variant of dust_flush, used to show that the split at an invalid
\* base depends on it: the regions are applied and the triplets are kept.
dust_flush_keeping(st, window_size, threshold) ==
  IF st.triplets = <<>> THEN st
  ELSE apply_masks(st, find_dust_regions(st.triplets, st.triplet_positions,
                                         window_size, threshold))

\* `find_dust_regions` + `apply_masks` + clear of the accumulated triplets
dust_flush(st, window_size, threshold) ==
  IF st.triplets = <<>> THEN st
  ELSE [apply_masks(st, find_dust_regions(st.triplets, st.triplet_positions,
                                          window_size, threshold))
          EXCEPT !.triplets = <<>>, !.triplet_positions = <<>>,
                 !.overflowed = @ \/ find_dust_regions_overflows(st.triplets, window_size,
                                                                threshold)]

RECURSIVE sdust_scan(_, _, _, _, _)
\* the loop `for i in 0..sequence.len().saturating_sub(2)`
sdust_scan(sequence, st, window_size, threshold, i) ==
  IF i >= saturating_sub(Len(sequence), 2) \/ st.fault # "none" THEN st
  ELSE LET triplet == encode_triplet(Slice(sequence, i, i + 3))
       IN sdust_scan(sequence,
            IF triplet # None
            THEN [st EXCEPT !.triplets = Append(@, triplet),
                            !.triplet_positions = Append(@, i)]
            ELSE dust_flush(st, window_size, threshold),
            window_size, threshold, i + 1)

\* the buffers at the end of mask_sequence_sdust, the products of should_mask
\* wrapped where they overflowed (and `overflowed` set)
sdust_run(sequence, quality, window_size, threshold) ==
  LET st0 == [masked_seq |-> sequence, masked_qual |-> quality,
              triplets |-> <<>>, triplet_positions |-> <<>>, fault |-> "none",
              overflowed |-> FALSE]
      scanned == sdust_scan(sequence, st0, window_size, threshold, 0)
  IN IF Len(sequence) < 3 THEN st0
     ELSE IF scanned.fault # "none" THEN scanned
     ELSE dust_flush(scanned, window_size, threshold)

\* what mask_sequence_sdust returns in a build without overflow checks
mask_sequence_sdust(sequence, quality, window_size, threshold) ==
  Returned(sdust_run(sequence, quality, window_size, threshold))

\* what a call can end in: where a product overflowed, a build with overflow
\* checks panics there
mask_sequence_sdust_outcomes(sequence, quality, window_size, threshold) ==
  LET st == sdust_run(sequence, quality, window_size, threshold)
  IN IF st.overflowed
     THEN {Returned(st), [seq |-> <<>>, qual |-> <<>>, fault |-> "overflow"]}
     ELSE {Returned(st)}

(***************************************************************************)
(* The library under a caller that masks one read with each routine, and   *)
(* then masks the outputs of the two entropy routines a second time.       *)
(***************************************************************************)
VARIABLES
  sequence, quality,                     \* the read
  window, entropy_threshold, k,          \* entropy configuration
  window_size, threshold,                \* SDUST configuration
  pc,                                    \* the call the caller makes next
  out_hashmap, out_array, out_auto,      \* results of the first pass
  out_sdust,
  again_hashmap, again_array,            \* results of the second pass
  args, chunk, written,                  \* a command-line run (SpecCli below)
  input, collected,                      \* the input file and the Vec that the
                                         \* workers fill (SpecChunks below)
  tracker_state, calls,                  \* an ArrayEntropyTracker of its own and
                                         \* the calls made on it (SpecTracker below)
  encoded,                               \* what encode_kmer returned (SpecEncode below)
  loop_hashmap, loop_array,              \* mask_sequence and mask_sequence_array inside
                                         \* `for i in 0..seq_len` (SpecSlide below)
  last_call,                             \* the last call made on the count structures
  hash_counts,                           \* a HashMap of k-mer counts of its own
                                         \* (SpecBackends below)
  batch, regions                         \* the triplets handed to find_dust_regions
                                         \* and what it returned (SpecRegions below)

vars == <<sequence, quality, window, entropy_threshold, k, window_size, threshold,
          pc, out_hashmap, out_array, out_auto, out_sdust, again_hashmap, again_array,
          crate, args, chunk, written, input, collected, tracker_state, calls, encoded,
          loop_hashmap, loop_array, last_call, hash_counts, batch, regions>>

\* what a call of a library routine leaves alone
cli_vars == <<crate, args, chunk, written, input, collected, tracker_state, calls, encoded,
          loop_hashmap, loop_array, last_call, hash_counts, batch, regions>>

\* no tracker of its own: the routines build theirs
NoTracker == [fault |-> "pending"]

\* no routine is inside its loop
NoLoop == [i |-> 0]

\* no call was made on a count structure
NoCall == [op |-> "none"]

\* no triplets were handed to find_dust_regions
NoBatch == [triplets |-> <<>>, positions |-> <<>>]

\* no command line: the routines are called directly
NoArgs == [binary |-> "none"]

Pending == [seq |-> <<>>, qual |-> <<>>, fault |-> "pending"]

Reads == UNION {[1..n -> ReadBytes] : n \in 0..MaxLen}

\* quality strings of a read: plain, '#' under every 'N', or none at all
\* (a FASTA record: `rec.qual().unwrap_or(&[])`)
Qualities(read) ==
  {[i \in 1..Len(read) |-> "I"],
   [i \in 1..Len(read) |-> IF read[i] = "N" THEN "#" ELSE "I"],
   <<>>}

\* (k, window) pairs with window > k, and one pair with k above the
\* array limit of mask_sequence_auto
LargeK == [k |-> 8, window |-> 9]
Configs ==
  {cf \in [k : 1..MaxK, window : 2..MaxWindow] : cf.window > cf.k} \cup {LargeK}

Thresholds == {F64Name.zero, F64Name.third, F64Name.t055, F64Name.one}

MaxDustWindow == 3
DustThresholds == {0, 4, 20}

InitEntropy ==
  /\ \E cf \in Configs : k = cf.k /\ window = cf.window
  /\ entropy_threshold \in Thresholds
  /\ window_size = 0
  /\ threshold = 0
  /\ pc = "mask_sequence"

InitSdust ==
  /\ k = 0
  /\ window = 0
  /\ entropy_threshold = F64Name.zero
  /\ window_size \in 1..MaxDustWindow
  /\ threshold \in DustThresholds
  /\ pc = "mask_sequence_sdust"

Init ==
  /\ sequence \in Reads
  /\ quality \in Qualities(sequence)
  /\ InitEntropy \/ InitSdust
  /\ out_hashmap = Pending
  /\ out_array = Pending
  /\ out_auto = Pending
  /\ out_sdust = Pending
  /\ again_hashmap = Pending
  /\ again_array = Pending
  /\ crate = "rustmasker"
  /\ args = NoArgs
  /\ chunk = <<>>
  /\ written = <<>>
  /\ input = <<>>
  /\ collected = <<>>
  /\ tracker_state = NoTracker
  /\ calls = 0
  /\ encoded = None
  /\ last_call = NoCall
  /\ hash_counts = EmptyMap
  /\ batch = NoBatch
  /\ regions = <<>>
  /\ loop_hashmap = NoLoop
  /\ loop_array = NoLoop

CallMaskSequence ==
  /\ pc = "mask_sequence"
  /\ out_hashmap' \in mask_sequence(sequence, quality, window, entropy_threshold, k)
  /\ pc' = "mask_sequence_array"
  /\ UNCHANGED <<sequence, quality, window, entropy_threshold, k, window_size,
                 threshold, out_array, out_auto, out_sdust, again_hashmap, again_array>>
  /\ UNCHANGED cli_vars

CallMaskSequenceArray ==
  /\ pc = "mask_sequence_array"
  /\ out_array' \in mask_sequence_array(sequence, quality, window, entropy_threshold, k)
  /\ pc' = "mask_sequence_auto"
  /\ UNCHANGED <<sequence, quality, window, entropy_threshold, k, window_size,
                 threshold, out_hashmap, out_auto, out_sdust, again_hashmap, again_array>>
  /\ UNCHANGED cli_vars

CallMaskSequenceAuto ==
  /\ pc = "mask_sequence_auto"
  /\ out_auto' \in mask_sequence_auto(sequence, quality, window, entropy_threshold, k)
  /\ pc' = "again_hashmap"
  /\ UNCHANGED <<sequence, quality, window, entropy_threshold, k, window_size,
                 threshold, out_hashmap, out_array, out_sdust, again_hashmap, again_array>>
  /\ UNCHANGED cli_vars

\* mask_sequence applied to its own output (when the first call returned)
AgainMaskSequence ==
  /\ pc = "again_hashmap"
  /\ IF out_hashmap.fault = "none"
     THEN again_hashmap' \in mask_sequence(out_hashmap.seq, out_hashmap.qual,
                                           window, entropy_threshold, k)
     ELSE again_hashmap' = again_hashmap
  /\ pc' = "again_array"
  /\ UNCHANGED <<sequence, quality, window, entropy_threshold, k, window_size,
                 threshold, out_hashmap, out_array, out_auto, out_sdust, again_array>>
  /\ UNCHANGED cli_vars

AgainMaskSequenceArray ==
  /\ pc = "again_array"
  /\ IF out_array.fault = "none"
     THEN again_array' \in mask_sequence_array(out_array.seq, out_array.qual,
                                               window, entropy_threshold, k)
     ELSE again_array' = again_array
  /\ pc' = "done"
  /\ UNCHANGED <<sequence, quality, window, entropy_threshold, k, window_size,
                 threshold, out_hashmap, out_array, out_auto, out_sdust, again_hashmap>>
  /\ UNCHANGED cli_vars

CallMaskSequenceSdust ==
  /\ pc = "mask_sequence_sdust"
  /\ out_sdust' \in mask_sequence_sdust_outcomes(sequence, quality, window_size, threshold)
  /\ pc' = "done"
  /\ UNCHANGED <<sequence, quality, window, entropy_threshold, k, window_size,
                 threshold, out_hashmap, out_array, out_auto, again_hashmap, again_array>>
  /\ UNCHANGED cli_vars

Next ==
  \/ CallMaskSequence
  \/ CallMaskSequenceArray
  \/ CallMaskSequenceAuto
  \/ AgainMaskSequence
  \/ AgainMaskSequenceArray
  \/ CallMaskSequenceSdust

Spec == Init /\ [][Next]_vars

(***************************************************************************)
(* The same caller with a window of U16Max + 1 k-mer positions, the first  *)
(* size that the u16 cells of the tracker cannot hold, on reads of exactly *)
(* one window: a short prefix followed by 'A's.  The caller masks the read *)
(* with the two routines that use the tracker.                             *)
(***************************************************************************)
WideWindowKmers == U16Max + 1
MaxPrefix == 3

WideReads(n) ==
  {[i \in 1..n |-> IF i <= Len(prefix) THEN prefix[i] ELSE "A"] :
     prefix \in UNION {[1..m -> ReadBytes] : m \in 0..MaxPrefix}}

InitWide ==
  /\ k \in 1..MaxK
  /\ window = WideWindowKmers + k - 1
  /\ sequence \in WideReads(window)
  /\ quality = [i \in 1..Len(sequence) |-> "I"]
  /\ entropy_threshold \in Thresholds
  /\ window_size = 0
  /\ threshold = 0
  /\ pc = "mask_sequence_array"
  /\ out_hashmap = Pending
  /\ out_array = Pending
  /\ out_auto = Pending
  /\ out_sdust = Pending
  /\ again_hashmap = Pending
  /\ again_array = Pending
  /\ crate = "rustmasker"
  /\ args = NoArgs
  /\ chunk = <<>>
  /\ written = <<>>
  /\ input = <<>>
  /\ collected = <<>>
  /\ tracker_state = NoTracker
  /\ calls = 0
  /\ encoded = None
  /\ last_call = NoCall
  /\ hash_counts = EmptyMap
  /\ batch = NoBatch
  /\ regions = <<>>
  /\ loop_hashmap = NoLoop
  /\ loop_array = NoLoop

NextWide ==
  \/ CallMaskSequenceArray
  \/ CallMaskSequenceAuto

SpecWide == InitWide /\ [][NextWide]_vars

(***************************************************************************)
(* The command-line binaries: mask_fastq (src/mask_fastq/src/bin/          *)
(* mask_fastq.rs, over the mask_fastq crate) and the older binary of       *)
(* modules/local/maskRead (main.rs, over its own copy of mask_sequence).   *)
(* main checks the arguments, then reads the input record by record;       *)
(* mask_fastq masks the records chunk by chunk, the older binary one by    *)
(* one.  An Option is a sequence of at most one element.  The variables of *)
(* the direct caller above stay at their initial values.                   *)
(***************************************************************************)
MaxRecords == 2
MaxRecordLen == 2

core_vars == <<sequence, quality, window, entropy_threshold, k, window_size, threshold,
               out_hashmap, out_array, out_auto, out_sdust, again_hashmap, again_array,
               tracker_state, calls, encoded, loop_hashmap, loop_array,
               last_call, hash_counts, batch, regions>>

Methods == {"Auto", "Array", "Hashmap"}

CliKmers == {0, 1, 2, 9, 16}
CliWindows == {1, 2, 3}
CliEntropies == {F64Name.minus_one, F64Name.t055, F64Name.t150}
CliCompressionLevels == {6, 10}
CliChunkSizes == {0, 1, 2}

\* struct Args of mask_fastq.rs (threads and output do not reach the
\* masking), with the one fact about the environment that main asks for
MaskFastqArgs ==
  [binary : {"mask_fastq"},
   input : {<<>>, <<"reads.fastq">>},
   window : CliWindows,
   entropy : CliEntropies,
   kmer : CliKmers,
   method : Methods,
   compression_level : {<<>>} \cup {<<level>> : level \in CliCompressionLevels},
   chunk_size : CliChunkSizes,
   stdin_is_terminal : BOOLEAN]

\* struct Args of the older main.rs
MaskReadArgs ==
  [binary : {"maskRead"},
   window : CliWindows,
   entropy : CliEntropies,
   kmer : CliKmers,
   compression_level : CliCompressionLevels]

\* the records of the input: a read with its quality, or without one
Records ==
  {r \in [seq : UNION {[1..n -> ReadBytes] : n \in 0..MaxRecordLen},
          qual : UNION {[1..n -> {"I"}] : n \in 0..MaxRecordLen}] :
     r.qual = <<>> \/ Len(r.qual) = Len(r.seq)}

InitCli ==
  /\ args \in MaskFastqArgs \cup MaskReadArgs
  /\ crate = args.binary
  /\ pc = "main"
  /\ chunk = <<>>
  /\ written = <<>>
  /\ input = <<>>
  /\ collected = <<>>
  /\ tracker_state = NoTracker
  /\ calls = 0
  /\ encoded = None
  /\ last_call = NoCall
  /\ hash_counts = EmptyMap
  /\ batch = NoBatch
  /\ regions = <<>>
  /\ loop_hashmap = NoLoop
  /\ loop_array = NoLoop
  /\ sequence = <<>>
  /\ quality = <<>>
  /\ window = 0
  /\ entropy_threshold = F64Name.zero
  /\ k = 0
  /\ window_size = 0
  /\ threshold = 0
  /\ out_hashmap = Pending
  /\ out_array = Pending
  /\ out_auto = Pending
  /\ out_sdust = Pending
  /\ again_hashmap = Pending
  /\ again_array = Pending

\* the checks of main (mask_fastq.rs) that end in std::process::exit(1)
MaskFastqRejects(a) ==
  \/ a.kmer > 15
  \/ a.kmer < 1
  \/ \E level \in {a.compression_level[i] : i \in DOMAIN a.compression_level} : level > 9
  \/ a.chunk_size < 1
  \/ (a.input = <<>> /\ a.stdin_is_terminal)

\* the checks of main (older main.rs) that end in std::process::exit(1)
MaskReadRejects(a) ==
  \/ a.kmer > 8
  \/ a.kmer < 1
  \/ a.compression_level > 9

\* the closure that process_and_write_chunk maps over the chunk
mask_record(a, record) ==
  CASE a.method = "Auto" ->
         mask_sequence_auto(record.seq, record.qual, a.window, a.entropy, a.kmer)
    [] a.method = "Array" ->
         mask_sequence_array(record.seq, record.qual, a.window, a.entropy, a.kmer)
    [] a.method = "Hashmap" ->
         mask_sequence(record.seq, record.qual, a.window, a.entropy, a.kmer)

RECURSIVE chunk_results(_, _)
\* what `.par_iter().map(..).collect()` can yield for the chunk c
chunk_results(a, c) ==
  IF c = <<>> THEN {<<>>}
  ELSE {<<r>> \o rest : r \in mask_record(a, Head(c)), rest \in chunk_results(a, Tail(c))}

\* process_and_write_chunk followed by chunk.clear(); a panic of the closure
\* ends the process before anything of the chunk is written
process_and_write_chunk(c, next_pc) ==
  \E results \in chunk_results(args, c) :
     IF \E i \in DOMAIN results : results[i].fault # "none"
     THEN /\ pc' = "panicked"
          /\ chunk' = c
          /\ written' = written
     ELSE /\ pc' = next_pc
          /\ chunk' = <<>>
          /\ written' = written \o
               [i \in DOMAIN c |->
                  [id |-> c[i].id, seq |-> results[i].seq, qual |-> results[i].qual]]

MaskFastqMain ==
  /\ args.binary = "mask_fastq"
  /\ pc = "main"
  /\ pc' = IF MaskFastqRejects(args) THEN "exit_1" ELSE "reader"
  /\ UNCHANGED <<crate, args, chunk, written>>
  /\ UNCHANGED core_vars
  /\ UNCHANGED <<input, collected>>

\* one round of `while let Some(record) = reader.next()`
MaskFastqRecord ==
  /\ args.binary = "mask_fastq"
  /\ pc = "reader"
  /\ Len(written) + Len(chunk) < MaxRecords
  /\ \E rec \in Records :
       LET pushed == Append(chunk, [id |-> Len(written) + Len(chunk),
                                    seq |-> rec.seq, qual |-> rec.qual])
       IN IF Len(pushed) >= args.chunk_size
          THEN process_and_write_chunk(pushed, "reader")
          ELSE /\ chunk' = pushed
               /\ UNCHANGED <<pc, written>>
  /\ UNCHANGED <<crate, args>>
  /\ UNCHANGED core_vars
  /\ UNCHANGED <<input, collected>>

\* the end of the input: the remaining records, then flush
MaskFastqEnd ==
  /\ args.binary = "mask_fastq"
  /\ pc = "reader"
  /\ IF chunk # <<>>
     THEN process_and_write_chunk(chunk, "done")
     ELSE /\ pc' = "done"
          /\ UNCHANGED <<chunk, written>>
  /\ UNCHANGED <<crate, args>>
  /\ UNCHANGED core_vars
  /\ UNCHANGED <<input, collected>>

MaskReadMain ==
  /\ args.binary = "maskRead"
  /\ pc = "main"
  /\ pc' = IF MaskReadRejects(args) THEN "exit_1" ELSE "reader"
  /\ UNCHANGED <<crate, args, chunk, written>>
  /\ UNCHANGED core_vars
  /\ UNCHANGED <<input, collected>>

MaskReadRecord ==
  /\ args.binary = "maskRead"
  /\ pc = "reader"
  /\ Len(written) < MaxRecords
  /\ \E rec \in Records :
       \E r \in mask_sequence(rec.seq, rec.qual, args.window, args.entropy, args.kmer) :
          IF r.fault # "none"
          THEN /\ pc' = "panicked"
               /\ written' = written
          ELSE /\ pc' = pc
               /\ written' = Append(written, [id |-> Len(written),
                                              seq |-> r.seq, qual |-> r.qual])
  /\ UNCHANGED <<crate, args, chunk>>
  /\ UNCHANGED core_vars
  /\ UNCHANGED <<input, collected>>

MaskReadEnd ==
  /\ args.binary = "maskRead"
  /\ pc = "reader"
  /\ pc' = "done"
  /\ UNCHANGED <<crate, args, chunk, written>>
  /\ UNCHANGED core_vars
  /\ UNCHANGED <<input, collected>>

NextCli ==
  \/ MaskFastqMain
  \/ MaskFastqRecord
  \/ MaskFastqEnd
  \/ MaskReadMain
  \/ MaskReadRecord
  \/ MaskReadEnd

SpecCli == InitCli /\ [][NextCli]_vars

(***************************************************************************)
(* The chunk loop of the mask_fastq binary, one step per record read, per  *)
(* worker of the parallel map and per chunk written.  The workers of       *)
(* `par_iter().map(..)` run in any order; `collect()` puts the value of    *)
(* the closure for chunk[i] into slot i of the Vec.                        *)
(***************************************************************************)
MaxStream == 3

\* the reads of the input file: low and high complexity, one with an 'N',
\* a FASTA record (no quality), and a read of ten bases
StreamRecords ==
  {[seq |-> <<"A", "A">>, qual |-> <<"I", "I">>],
   [seq |-> <<"A", "C">>, qual |-> <<"I", "I">>],
   [seq |-> <<"C", "C", "N">>, qual |-> <<"I", "I", "I">>],
   [seq |-> <<"A", "A">>, qual |-> <<>>],
   [seq |-> <<"A", "C", "G", "T", "A", "A", "C", "C", "G", "T">>,
    qual |-> [i \in 1..10 |-> "I"]]}

\* input files: every record with its identifier
Streams ==
  UNION {{[i \in 1..n |-> [id |-> i - 1, seq |-> f[i].seq, qual |-> f[i].qual]] :
            f \in [1..n -> StreamRecords]} : n \in 0..MaxStream}

\* command lines with a window above k: -k 1 -w 2 and -k 9 -w 10
ChunkArgs ==
  {a \in [binary : {"mask_fastq"},
          input : {<<"reads.fastq">>},
          window : {2, 10},
          entropy : {F64Name.t055},
          kmer : {1, 9},
          method : Methods,
          compression_level : {<<>>},
          chunk_size : 1..MaxStream,
          stdin_is_terminal : {FALSE}] : a.window = a.kmer + 1}

InitChunks ==
  /\ args \in ChunkArgs
  /\ crate = args.binary
  /\ input \in Streams
  /\ pc = "main"
  /\ chunk = <<>>
  /\ collected = <<>>
  /\ tracker_state = NoTracker
  /\ calls = 0
  /\ encoded = None
  /\ last_call = NoCall
  /\ hash_counts = EmptyMap
  /\ batch = NoBatch
  /\ regions = <<>>
  /\ loop_hashmap = NoLoop
  /\ loop_array = NoLoop
  /\ written = <<>>
  /\ sequence = <<>>
  /\ quality = <<>>
  /\ window = 0
  /\ entropy_threshold = F64Name.zero
  /\ k = 0
  /\ window_size = 0
  /\ threshold = 0
  /\ out_hashmap = Pending
  /\ out_array = Pending
  /\ out_auto = Pending
  /\ out_sdust = Pending
  /\ again_hashmap = Pending
  /\ again_array = Pending

\* the records that the reader has handed out so far
records_read == Len(written) + Len(chunk)

\* the validation of main
ChunkMain ==
  /\ pc = "main"
  /\ pc' = IF MaskFastqRejects(args) THEN "exit_1" ELSE "reader"
  /\ UNCHANGED <<crate, args, chunk, written, input, collected>>
  /\ UNCHANGED core_vars

\* `while let Some(record) = reader.next()`: push the record; a full chunk
\* starts the parallel map
ChunkRead ==
  /\ pc = "reader"
  /\ records_read < Len(input)
  /\ chunk' = Append(chunk, input[records_read + 1])
  /\ IF Len(chunk') >= args.chunk_size
     THEN /\ pc' = "par_iter"
          /\ collected' = [i \in DOMAIN chunk' |-> Pending]
     ELSE UNCHANGED <<pc, collected>>
  /\ UNCHANGED <<crate, args, written, input>>
  /\ UNCHANGED core_vars

\* the end of the input: the remaining records, or flush
ChunkEnd ==
  /\ pc = "reader"
  /\ records_read = Len(input)
  /\ IF chunk # <<>>
     THEN /\ pc' = "par_iter_rest"
          /\ collected' = [i \in DOMAIN chunk |-> Pending]
     ELSE /\ pc' = "done"
          /\ UNCHANGED collected
  /\ UNCHANGED <<crate, args, chunk, written, input>>
  /\ UNCHANGED core_vars

\* one worker runs the closure on one record of the chunk; a panic of the
\* closure ends the process
WorkerMask ==
  /\ pc \in {"par_iter", "par_iter_rest"}
  /\ \E i \in DOMAIN chunk :
       /\ collected[i] = Pending
       /\ \E r \in mask_record(args, chunk[i]) :
            IF r.fault # "none"
            THEN /\ pc' = "panicked"
                 /\ UNCHANGED collected
            ELSE /\ collected' = [collected EXCEPT ![i] = r]
                 /\ UNCHANGED pc
  /\ UNCHANGED <<crate, args, chunk, written, input>>
  /\ UNCHANGED core_vars

\* the mutant of written_chunk: the results paired with the records from the
\* other end of the chunk
written_chunk_reversed(c, res) ==
  [i \in DOMAIN res |->
     [id |-> c[i].id, seq |-> res[Len(res) + 1 - i].seq,
      qual |-> res[Len(res) + 1 - i].qual]]

\* the write loop: `for (i, (masked_seq, masked_qual)) in results.iter().enumerate()`
written_chunk(c, res) ==
  [i \in DOMAIN res |-> [id |-> c[i].id, seq |-> res[i].seq, qual |-> res[i].qual]]

\* collect() has every value: write the chunk, then chunk.clear() and the
\* next record, or flush
ChunkWrite ==
  /\ pc \in {"par_iter", "par_iter_rest"}
  /\ \A i \in DOMAIN collected : collected[i] # Pending
  /\ written' = written \o written_chunk(chunk, collected)
  /\ collected' = <<>>
  /\ chunk' = <<>>
  /\ pc' = IF pc = "par_iter" THEN "reader" ELSE "done"
  /\ UNCHANGED <<crate, args, input>>
  /\ UNCHANGED core_vars

NextChunks ==
  \/ ChunkMain
  \/ ChunkRead
  \/ ChunkEnd
  \/ WorkerMask
  \/ ChunkWrite

SpecChunks == InitChunks /\ [][NextChunks]_vars

(***************************************************************************)
(* An ArrayEntropyTracker driven through its public methods, as the unit   *)
(* tests of the tracker do: new, then add_kmer, remove_kmer and clear in   *)
(* any order.  The entropy table has an entry for window_kmers + 1         *)
(* occurrences of one code, so the tracker holds at most that many.        *)
(***************************************************************************)
MaxCalls == 7

\* (k, window) of the trackers: window_kmers is 3, 5 and 5
TrackerConfigs ==
  {[k |-> 1, window |-> 3], [k |-> 1, window |-> 5], [k |-> 2, window |-> 6]}

\* the codes handed to add_kmer and remove_kmer
TrackerCodes == 0..4

RECURSIVE counts_sum(_, _)
\* the occurrences held: the sum of counts[0..=code]
counts_sum(counts, code) ==
  IF code < 0 THEN 0 ELSE counts[code] + counts_sum(counts, code - 1)

occurrences(t) == counts_sum(t.counts, Cardinality(DOMAIN t.counts) - 1)

InitTracker ==
  /\ crate = "rustmasker"
  /\ \E cfg \in TrackerConfigs : tracker_state = ArrayEntropyTracker_new(cfg.k, cfg.window)
  /\ calls = 0
  /\ encoded = None
  /\ last_call = NoCall
  /\ hash_counts = EmptyMap
  /\ batch = NoBatch
  /\ regions = <<>>
  /\ loop_hashmap = NoLoop
  /\ loop_array = NoLoop
  /\ args = NoArgs
  /\ chunk = <<>>
  /\ written = <<>>
  /\ input = <<>>
  /\ collected = <<>>
  /\ pc = "tracker"
  /\ sequence = <<>>
  /\ quality = <<>>
  /\ window = 0
  /\ entropy_threshold = F64Name.zero
  /\ k = 0
  /\ window_size = 0
  /\ threshold = 0
  /\ out_hashmap = Pending
  /\ out_array = Pending
  /\ out_auto = Pending
  /\ out_sdust = Pending
  /\ again_hashmap = Pending
  /\ again_array = Pending

\* what a call on the tracker leaves alone
tracker_unchanged ==
  <<sequence, quality, window, entropy_threshold, k, window_size, threshold,
    pc, out_hashmap, out_array, out_auto, out_sdust, again_hashmap, again_array,
    crate, args, chunk, written, input, collected, encoded, loop_hashmap, loop_array,
    hash_counts, batch, regions>>

TrackerAdd ==
  /\ tracker_state.fault = "none"
  /\ calls < MaxCalls
  /\ occurrences(tracker_state) <= tracker_state.window_kmers
  /\ \E kmer_code \in TrackerCodes :
       /\ tracker_state' = ArrayEntropyTracker_add_kmer(tracker_state, kmer_code)
       /\ last_call' = [op |-> "add_kmer", kmer_code |-> kmer_code]
  /\ calls' = calls + 1
  /\ UNCHANGED tracker_unchanged

TrackerRemove ==
  /\ tracker_state.fault = "none"
  /\ calls < MaxCalls
  /\ \E kmer_code \in TrackerCodes :
       /\ tracker_state' = ArrayEntropyTracker_remove_kmer(tracker_state, kmer_code)
       /\ last_call' = [op |-> "remove_kmer", kmer_code |-> kmer_code]
  /\ calls' = calls + 1
  /\ UNCHANGED tracker_unchanged

TrackerClear ==
  /\ tracker_state.fault = "none"
  /\ calls < MaxCalls
  /\ tracker_state' = ArrayEntropyTracker_clear(tracker_state)
  /\ last_call' = [op |-> "clear"]
  /\ calls' = calls + 1
  /\ UNCHANGED tracker_unchanged

NextTracker ==
  \/ TrackerAdd
  \/ TrackerRemove
  \/ TrackerClear

SpecTracker == InitTracker /\ [][NextTracker]_vars

(***************************************************************************)
(* The same caller on homopolymers: reads of one repeated base, shorter    *)
(* and longer than the window, with a quality per base.                    *)
(***************************************************************************)
MaxRun == 7

\* k past the assert of ArrayEntropyTracker::new
LongK == [k |-> 16, window |-> 17]

RunConfigs ==
  {cf \in [k : 1..3, window : 2..6] : cf.window > cf.k /\ cf.window <= cf.k + 3}
    \cup {LongK}

RunLengths == 1..MaxRun \cup {LongK.window, LongK.window + 1}

\* thresholds above 0, from the least positive double
RunThresholds == {F64Name.tiny, F64Name.t055, F64Name.one}

InitHomopolymer ==
  /\ \E base \in {"A", "C", "G", "T"}, n \in RunLengths :
        sequence = [i \in 1..n |-> base]
  /\ quality = [i \in 1..Len(sequence) |-> "I"]
  /\ \E cf \in RunConfigs : k = cf.k /\ window = cf.window
  /\ entropy_threshold \in RunThresholds
  /\ window_size = 0
  /\ threshold = 0
  /\ pc = "mask_sequence"
  /\ out_hashmap = Pending
  /\ out_array = Pending
  /\ out_auto = Pending
  /\ out_sdust = Pending
  /\ again_hashmap = Pending
  /\ again_array = Pending
  /\ crate = "rustmasker"
  /\ args = NoArgs
  /\ chunk = <<>>
  /\ written = <<>>
  /\ input = <<>>
  /\ collected = <<>>
  /\ tracker_state = NoTracker
  /\ calls = 0
  /\ encoded = None
  /\ last_call = NoCall
  /\ hash_counts = EmptyMap
  /\ batch = NoBatch
  /\ regions = <<>>
  /\ loop_hashmap = NoLoop
  /\ loop_array = NoLoop

NextHomopolymer ==
  \/ CallMaskSequence
  \/ CallMaskSequenceArray
  \/ CallMaskSequenceAuto
  \/ AgainMaskSequence
  \/ AgainMaskSequenceArray

SpecHomopolymer == InitHomopolymer /\ [][NextHomopolymer]_vars

(***************************************************************************)
(* mask_sequence_sdust on reads put together from two parts and a byte     *)
(* that is no base, each part long enough to hold triplets of its own.     *)
(***************************************************************************)
MaxPart == 4

Parts == UNION {[1..n -> ReadBytes] : n \in 0..MaxPart}

\* bytes outside A, C, G, T, a, c, g, t
NoBase == {"N", "X"}

InitSplit ==
  /\ \E X \in Parts, Y \in Parts, b \in NoBase : sequence = X \o <<b>> \o Y
  /\ quality = [i \in 1..Len(sequence) |-> "I"]
  /\ InitSdust
  /\ out_hashmap = Pending
  /\ out_array = Pending
  /\ out_auto = Pending
  /\ out_sdust = Pending
  /\ again_hashmap = Pending
  /\ again_array = Pending
  /\ crate = "rustmasker"
  /\ args = NoArgs
  /\ chunk = <<>>
  /\ written = <<>>
  /\ input = <<>>
  /\ collected = <<>>
  /\ tracker_state = NoTracker
  /\ calls = 0
  /\ encoded = None
  /\ last_call = NoCall
  /\ hash_counts = EmptyMap
  /\ batch = NoBatch
  /\ regions = <<>>
  /\ loop_hashmap = NoLoop
  /\ loop_array = NoLoop

NextSplit == CallMaskSequenceSdust

SpecSplit == InitSplit /\ [][NextSplit]_vars

(***************************************************************************)
(* mask_sequence_sdust under thresholds from the whole range of the i32    *)
(* argument.                                                               *)
(***************************************************************************)
WideThresholds ==
  {-I32Max - 1, -1, 0, 4, 20, I32Max \div 2 + 1, I32Max}

InitThreshold ==
  /\ sequence \in Reads
  /\ quality = [i \in 1..Len(sequence) |-> "I"]
  /\ k = 0
  /\ window = 0
  /\ entropy_threshold = F64Name.zero
  /\ window_size \in 1..MaxDustWindow
  /\ threshold \in WideThresholds
  /\ pc = "mask_sequence_sdust"
  /\ out_hashmap = Pending
  /\ out_array = Pending
  /\ out_auto = Pending
  /\ out_sdust = Pending
  /\ again_hashmap = Pending
  /\ again_array = Pending
  /\ crate = "rustmasker"
  /\ args = NoArgs
  /\ chunk = <<>>
  /\ written = <<>>
  /\ input = <<>>
  /\ collected = <<>>
  /\ tracker_state = NoTracker
  /\ calls = 0
  /\ encoded = None
  /\ last_call = NoCall
  /\ hash_counts = EmptyMap
  /\ batch = NoBatch
  /\ regions = <<>>
  /\ loop_hashmap = NoLoop
  /\ loop_array = NoLoop

NextThreshold == CallMaskSequenceSdust

SpecThreshold == InitThreshold /\ [][NextThreshold]_vars

(***************************************************************************)
(* encode_kmer on its own: a caller hands it one slice of bytes.  The      *)
(* slices are all the short ones over upper and lower case bases, 'N' and 'n',  *)
(* and long ones around the encoding maxima of the crates (8 and 15): one  *)
(* byte repeated, and runs of 'T' or 'A' with one other byte at the last   *)
(* or the first place.                                                     *)
(***************************************************************************)
MaxSlice == 2

EncodeBytes == {"A", "a", "C", "c", "G", "g", "T", "t", "N", "n"}

LongSlices == {7, 8, 9, 15, 16}

EncodeSlices ==
  UNION {[1..n -> EncodeBytes] : n \in 0..MaxSlice}
  \cup {[i \in 1..n |-> x] : n \in LongSlices, x \in EncodeBytes}
  \cup {[i \in 1..n |-> IF i = n THEN x ELSE "T"] : n \in LongSlices, x \in EncodeBytes}
  \cup {[i \in 1..n |-> IF i = 1 THEN x ELSE "A"] : n \in LongSlices, x \in EncodeBytes}

InitEncode ==
  /\ crate \in Crates
  /\ sequence \in EncodeSlices
  /\ quality = <<>>
  /\ window = 0
  /\ entropy_threshold = F64Name.zero
  /\ k = 0
  /\ window_size = 0
  /\ threshold = 0
  /\ pc = "encode"
  /\ out_hashmap = Pending
  /\ out_array = Pending
  /\ out_auto = Pending
  /\ out_sdust = Pending
  /\ again_hashmap = Pending
  /\ again_array = Pending
  /\ args = NoArgs
  /\ chunk = <<>>
  /\ written = <<>>
  /\ input = <<>>
  /\ collected = <<>>
  /\ tracker_state = NoTracker
  /\ calls = 0
  /\ encoded = None
  /\ last_call = NoCall
  /\ hash_counts = EmptyMap
  /\ batch = NoBatch
  /\ regions = <<>>
  /\ loop_hashmap = NoLoop
  /\ loop_array = NoLoop

CallEncodeKmer ==
  /\ pc = "encode"
  /\ encoded' = encode_kmer(sequence)
  /\ pc' = "encoded"
  /\ UNCHANGED <<sequence, quality, window, entropy_threshold, k, window_size, threshold,
                 out_hashmap, out_array, out_auto, out_sdust, again_hashmap, again_array,
                 crate, args, chunk, written, input, collected, tracker_state, calls,
                 loop_hashmap, loop_array, last_call, hash_counts, batch, regions>>

NextEncode == CallEncodeKmer

SpecEncode == InitEncode /\ [][NextEncode]_vars

(***************************************************************************)
(* The two sliding-window routines inside `for i in 0..seq_len`, one       *)
(* iteration at a time, on a read that holds a full window (L >= W > k).   *)
(* loop_hashmap.states are the states mask_sequence can be in before       *)
(* iteration loop_hashmap.i (one per iteration order of the HashMap so     *)
(* far); loop_array.st is the state of mask_sequence_array.                *)
(***************************************************************************)
SlideConfigs == {cf \in Configs : cf.k <= MaxK}

SlideThresholds == {F64Name.t055, F64Name.one}

InitSlide ==
  /\ crate = "rustmasker"
  /\ \E cf \in SlideConfigs : k = cf.k /\ window = cf.window
  /\ sequence \in {read \in Reads : Len(read) >= window}
  /\ quality = [i \in 1..Len(sequence) |-> "I"]
  /\ entropy_threshold \in SlideThresholds
  /\ window_size = 0
  /\ threshold = 0
  /\ pc = "loop"
  /\ loop_hashmap =
       [i |-> first_full_i(window),
        states |-> {[masked_seq |-> sequence, masked_qual |-> quality,
                     kmer_counts |-> EmptyMap, first_full_window |-> TRUE,
                     fault |-> "none"]}]
  /\ loop_array =
       [i |-> first_full_i(window),
        st |-> [masked_seq |-> sequence, masked_qual |-> quality,
                tracker |-> ArrayEntropyTracker_new(k, window),
                first_full_window |-> TRUE,
                fault |-> ArrayEntropyTracker_new(k, window).fault]]
  /\ out_hashmap = Pending
  /\ out_array = Pending
  /\ out_auto = Pending
  /\ out_sdust = Pending
  /\ again_hashmap = Pending
  /\ again_array = Pending
  /\ args = NoArgs
  /\ chunk = <<>>
  /\ written = <<>>
  /\ input = <<>>
  /\ collected = <<>>
  /\ tracker_state = NoTracker
  /\ calls = 0
  /\ encoded = None
  /\ last_call = NoCall
  /\ hash_counts = EmptyMap
  /\ batch = NoBatch
  /\ regions = <<>>

slide_unchanged ==
  <<sequence, quality, window, entropy_threshold, k, window_size, threshold, pc,
    out_auto, out_sdust, again_hashmap, again_array,
    crate, args, chunk, written, input, collected, tracker_state, calls, encoded,
    last_call, hash_counts, batch, regions>>

\* one iteration of the loop of mask_sequence
IterMaskSequence ==
  /\ pc = "loop"
  /\ loop_hashmap.i < Len(sequence)
  /\ loop_hashmap' =
       [i |-> loop_hashmap.i + 1,
        states |-> UNION {IF st.fault # "none" THEN {st}
                          ELSE mask_sequence_iter(
                                 Call(sequence, quality, window, entropy_threshold, k),
                                 st, loop_hashmap.i) :
                            st \in loop_hashmap.states}]
  /\ UNCHANGED <<loop_array, out_hashmap, out_array>>
  /\ UNCHANGED slide_unchanged

\* `(masked_seq, masked_qual)` after the loop of mask_sequence
ReturnMaskSequence ==
  /\ pc = "loop"
  /\ loop_hashmap.i = Len(sequence)
  /\ out_hashmap = Pending
  /\ out_hashmap' \in {Returned(st) : st \in loop_hashmap.states}
  /\ UNCHANGED <<loop_hashmap, loop_array, out_array>>
  /\ UNCHANGED slide_unchanged

\* one iteration of the loop of mask_sequence_array
IterMaskSequenceArray ==
  /\ pc = "loop"
  /\ loop_array.i < Len(sequence)
  /\ loop_array.st.fault = "none"
  /\ loop_array' =
       [i |-> loop_array.i + 1,
        st |-> mask_sequence_array_iter(
                 Call(sequence, quality, window, entropy_threshold, k),
                 loop_array.st, loop_array.i)]
  /\ UNCHANGED <<loop_hashmap, out_hashmap, out_array>>
  /\ UNCHANGED slide_unchanged

\* `(masked_seq, masked_qual)` after the loop of mask_sequence_array
ReturnMaskSequenceArray ==
  /\ pc = "loop"
  /\ loop_array.i = Len(sequence) \/ loop_array.st.fault # "none"
  /\ out_array = Pending
  /\ out_array' = Returned(loop_array.st)
  /\ UNCHANGED <<loop_hashmap, loop_array, out_hashmap>>
  /\ UNCHANGED slide_unchanged

NextSlide ==
  \/ IterMaskSequence
  \/ ReturnMaskSequence
  \/ IterMaskSequenceArray
  \/ ReturnMaskSequenceArray

SpecSlide == InitSlide /\ [][NextSlide]_vars

(***************************************************************************)
(* The two count structures side by side, as a caller of the library can   *)
(* drive them: an ArrayEntropyTracker and a HashMap<u32, usize> receive    *)
(* the same k-mers, the tracker through `if let Some(kmer_code) =          *)
(* encode_kmer(kmer)`, the HashMap through add_kmer and remove_kmer.       *)
(***************************************************************************)
MaxKmerCalls == 6

BackendConfigs == {[k |-> 1, window |-> 3], [k |-> 2, window |-> 6]}

\* the k-mers handed to both structures
BackendKmers == [1..k -> ReadBytes]

InitBackends ==
  /\ crate = "rustmasker"
  /\ \E cfg \in BackendConfigs : k = cfg.k /\ window = cfg.window
  /\ tracker_state = ArrayEntropyTracker_new(k, window)
  /\ hash_counts = EmptyMap
  /\ batch = NoBatch
  /\ regions = <<>>
  /\ last_call = NoCall
  /\ calls = 0
  /\ pc = "backends"
  /\ sequence = <<>>
  /\ quality = <<>>
  /\ entropy_threshold = F64Name.zero
  /\ window_size = 0
  /\ threshold = 0
  /\ out_hashmap = Pending
  /\ out_array = Pending
  /\ out_auto = Pending
  /\ out_sdust = Pending
  /\ again_hashmap = Pending
  /\ again_array = Pending
  /\ args = NoArgs
  /\ chunk = <<>>
  /\ written = <<>>
  /\ input = <<>>
  /\ collected = <<>>
  /\ encoded = None
  /\ loop_hashmap = NoLoop
  /\ loop_array = NoLoop

backends_unchanged ==
  <<sequence, quality, window, entropy_threshold, k, window_size, threshold,
    pc, out_hashmap, out_array, out_auto, out_sdust, again_hashmap, again_array,
    crate, args, chunk, written, input, collected, encoded, loop_hashmap, loop_array,
    batch, regions>>

BackendsAdd ==
  /\ pc = "backends"
  /\ tracker_state.fault = "none"
  /\ calls < MaxKmerCalls
  /\ occurrences(tracker_state) < tracker_state.window_kmers
  /\ \E kmer \in BackendKmers :
       /\ tracker_state' =
            IF encode_kmer(kmer) = None THEN tracker_state
            ELSE ArrayEntropyTracker_add_kmer(tracker_state, encode_kmer(kmer))
       /\ hash_counts' = add_kmer(hash_counts, kmer)
       /\ last_call' = [op |-> "add_kmer", kmer |-> kmer]
  /\ calls' = calls + 1
  /\ UNCHANGED backends_unchanged

BackendsRemove ==
  /\ pc = "backends"
  /\ tracker_state.fault = "none"
  /\ calls < MaxKmerCalls
  /\ \E kmer \in BackendKmers :
       /\ tracker_state' =
            IF encode_kmer(kmer) = None THEN tracker_state
            ELSE ArrayEntropyTracker_remove_kmer(tracker_state, encode_kmer(kmer))
       /\ hash_counts' = remove_kmer(hash_counts, kmer)
       /\ last_call' = [op |-> "remove_kmer", kmer |-> kmer]
  /\ calls' = calls + 1
  /\ UNCHANGED backends_unchanged

NextBackends ==
  \/ BackendsAdd
  \/ BackendsRemove

SpecBackends == InitBackends /\ [][NextBackends]_vars

(***************************************************************************)
(* find_dust_regions on its own: one batch of triplets, as                 *)
(* mask_sequence_sdust accumulates it from a run of bases that starts at   *)
(* some offset of the read.  The runs are all those over A and C up to     *)
(* MaxBatch bases, and pairs of low-complexity stretches with nothing, one *)
(* base or two bases between them.                                         *)
(***************************************************************************)
MaxBatch == 6

Stretches ==
  {<<"A", "A", "A", "A">>, <<"C", "C", "C", "C">>, <<"A", "A", "A", "A", "A">>}

Betweens == {<<>>, <<"G">>, <<"G", "T">>}

BatchRuns ==
  UNION {[1..n -> {"A", "C"}] : n \in 3..MaxBatch}
  \cup {x \o m \o y : x \in Stretches, m \in Betweens, y \in Stretches}

BatchOffsets == {0, 2}

RegionThresholds == DustThresholds \cup {-1}

\* `triplets` and `triplet_positions` of a run of bases that starts at offset
batch_of(run, offset) ==
  [triplets |-> [i \in 1..(Len(run) - 2) |-> encode_triplet(Slice(run, i - 1, i + 2))],
   positions |-> [i \in 1..(Len(run) - 2) |-> offset + i - 1]]

InitRegions ==
  /\ crate = "rustmasker"
  /\ \E run \in BatchRuns, offset \in BatchOffsets :
        /\ sequence = run
        /\ batch = batch_of(run, offset)
  /\ quality = <<>>
  /\ window_size \in 0..MaxDustWindow
  /\ threshold \in RegionThresholds
  /\ regions = <<>>
  /\ pc = "find_dust_regions"
  /\ k = 0
  /\ window = 0
  /\ entropy_threshold = F64Name.zero
  /\ out_hashmap = Pending
  /\ out_array = Pending
  /\ out_auto = Pending
  /\ out_sdust = Pending
  /\ again_hashmap = Pending
  /\ again_array = Pending
  /\ args = NoArgs
  /\ chunk = <<>>
  /\ written = <<>>
  /\ input = <<>>
  /\ collected = <<>>
  /\ tracker_state = NoTracker
  /\ calls = 0
  /\ encoded = None
  /\ loop_hashmap = NoLoop
  /\ loop_array = NoLoop
  /\ last_call = NoCall
  /\ hash_counts = EmptyMap

CallFindDustRegions ==
  /\ pc = "find_dust_regions"
  /\ regions' = find_dust_regions(batch.triplets, batch.positions, window_size, threshold)
  /\ pc' = "regions"
  /\ UNCHANGED <<sequence, quality, window, entropy_threshold, k, window_size, threshold,
                 out_hashmap, out_array, out_auto, out_sdust, again_hashmap, again_array,
                 crate, args, chunk, written, input, collected, tracker_state, calls,
                 encoded, loop_hashmap, loop_array, last_call, hash_counts, batch>>

NextRegions == CallFindDustRegions

SpecRegions == InitRegions /\ [][NextRegions]_vars

(***************************************************************************)
(* mask_sequence_array one tracker call at a time: the body of             *)
(* `for i in 0..seq_len` on a read that holds a full window, split at      *)
(* tracker.clear(), each tracker.add_kmer of the first full window, the    *)
(* tracker.remove_kmer and the tracker.add_kmer of a slide, and            *)
(* tracker.entropy().  loop_array.st is the state of the routine,          *)
(* loop_array.step the call it makes next, last_call the call it made      *)
(* last.  The windows are those of SlideConfigs and the window of          *)
(* WideWindowKmers k-mer positions.                                        *)
(***************************************************************************)
DriverThresholds == {F64Name.t055}

\* reads of exactly one wide window: one base, then 'A's
DriverWideReads(n) ==
  {[i \in 1..n |-> IF i = 1 THEN first ELSE "A"] : first \in ReadBytes}

DriverCall == Call(sequence, quality, window, entropy_threshold, k)

driver_kmer_code(pos) ==
  IF SliceOk(sequence, pos, pos + k)
  THEN encode_kmer(Slice(sequence, pos, pos + k))
  ELSE None

driver_call(op, pos) ==
  IF driver_kmer_code(pos) = None
  THEN NoCall
  ELSE [op |-> op, kmer_code |-> driver_kmer_code(pos)]

InitDriver ==
  /\ crate = "rustmasker"
  /\ \/ /\ \E cf \in SlideConfigs : k = cf.k /\ window = cf.window
        /\ sequence \in {read \in Reads : Len(read) >= window}
     \/ /\ k = 1
        /\ window = WideWindowKmers + k - 1
        /\ sequence \in DriverWideReads(window)
  /\ quality = [i \in 1..Len(sequence) |-> "I"]
  /\ entropy_threshold \in DriverThresholds
  /\ window_size = 0
  /\ threshold = 0
  /\ pc = "driver"
  /\ loop_hashmap = NoLoop
  /\ loop_array =
       [i |-> first_full_i(window),
        step |-> "clear",
        j |-> 0,
        st |-> [masked_seq |-> sequence, masked_qual |-> quality,
                tracker |-> ArrayEntropyTracker_new(k, window),
                first_full_window |-> TRUE,
                fault |-> ArrayEntropyTracker_new(k, window).fault]]
  /\ out_hashmap = Pending
  /\ out_array = Pending
  /\ out_auto = Pending
  /\ out_sdust = Pending
  /\ again_hashmap = Pending
  /\ again_array = Pending
  /\ args = NoArgs
  /\ chunk = <<>>
  /\ written = <<>>
  /\ input = <<>>
  /\ collected = <<>>
  /\ tracker_state = NoTracker
  /\ calls = 0
  /\ encoded = None
  /\ last_call = NoCall
  /\ hash_counts = EmptyMap
  /\ batch = NoBatch
  /\ regions = <<>>

driver_unchanged ==
  <<sequence, quality, window, entropy_threshold, k, window_size, threshold, pc,
    out_hashmap, out_auto, out_sdust, again_hashmap, again_array,
    crate, args, chunk, written, input, collected, tracker_state, calls, encoded,
    hash_counts, batch, regions, loop_hashmap>>

DriverRunning(step) ==
  /\ pc = "driver"
  /\ loop_array.step = step
  /\ loop_array.st.fault = "none"

\* `tracker.clear()` of the first full window
DriverClear ==
  /\ DriverRunning("clear")
  /\ loop_array' =
       [loop_array EXCEPT
          !.st = [@ EXCEPT !.tracker = ArrayEntropyTracker_clear(@)],
          !.j = window_start_of(loop_array.i, window),
          !.step = IF window_start_of(loop_array.i, window)
                        > saturating_sub(loop_array.i + 1, k)
                   THEN "entropy" ELSE "prime"]
  /\ last_call' = [op |-> "clear"]
  /\ UNCHANGED out_array
  /\ UNCHANGED driver_unchanged

\* one pass of `for j in window_start..=window_end.saturating_sub(k)`
DriverPrime ==
  /\ DriverRunning("prime")
  /\ loop_array' =
       [loop_array EXCEPT
          !.st = [tracker_add_slice(DriverCall, @, loop_array.j)
                    EXCEPT !.first_full_window =
                             loop_array.j < saturating_sub(loop_array.i + 1, k)],
          !.j = @ + 1,
          !.step = IF loop_array.j < saturating_sub(loop_array.i + 1, k)
                   THEN "prime" ELSE "entropy"]
  /\ last_call' = driver_call("add_kmer", loop_array.j)
  /\ UNCHANGED out_array
  /\ UNCHANGED driver_unchanged

\* "Remove the leftmost k-mer that just exited"
DriverRemove ==
  /\ DriverRunning("remove")
  /\ LET window_start == window_start_of(loop_array.i, window)
         exiting_kmer_pos == window_start - 1
     IN /\ loop_array' =
             [loop_array EXCEPT
                !.st = IF window_start < 1 THEN [@ EXCEPT !.fault = "overflow"]
                       ELSE IF exiting_kmer_pos + k <= Len(sequence)
                            THEN tracker_remove_slice(DriverCall, @, exiting_kmer_pos)
                            ELSE @,
                !.step = "add"]
        /\ last_call' = IF window_start >= 1 /\ exiting_kmer_pos + k <= Len(sequence)
                        THEN driver_call("remove_kmer", exiting_kmer_pos)
                        ELSE NoCall
  /\ UNCHANGED out_array
  /\ UNCHANGED driver_unchanged

\* "Add the new rightmost k-mer that just entered"
DriverAdd ==
  /\ DriverRunning("add")
  /\ LET window_end == loop_array.i + 1
         entering_kmer_pos == window_end - k
         entering == /\ window_end >= k
                     /\ entering_kmer_pos < Len(sequence)
                     /\ entering_kmer_pos + k <= Len(sequence)
     IN /\ loop_array' =
             [loop_array EXCEPT
                !.st = IF window_end < k THEN [@ EXCEPT !.fault = "overflow"]
                       ELSE IF entering
                            THEN tracker_add_slice(DriverCall, @, entering_kmer_pos)
                            ELSE @,
                !.step = "entropy"]
        /\ last_call' = IF entering
                        THEN driver_call("add_kmer", entering_kmer_pos)
                        ELSE NoCall
  /\ UNCHANGED out_array
  /\ UNCHANGED driver_unchanged

\* `tracker.entropy()` and the masking of the window, then the next i
DriverEntropy ==
  /\ DriverRunning("entropy")
  /\ LET window_start == window_start_of(loop_array.i, window)
         window_end == loop_array.i + 1
         entropy == ArrayEntropyTracker_entropy(loop_array.st.tracker)
     IN loop_array' =
          [loop_array EXCEPT
             !.st = IF F64Lt(entropy, entropy_threshold)
                    THEN mask_range(@, window_start, window_end)
                    ELSE @,
             !.i = @ + 1,
             !.step = IF loop_array.i + 1 < Len(sequence) THEN "remove" ELSE "return"]
  /\ last_call' = [op |-> "entropy"]
  /\ UNCHANGED out_array
  /\ UNCHANGED driver_unchanged

\* `(masked_seq, masked_qual)`, or the panic of the call that failed
DriverReturn ==
  /\ pc = "driver"
  /\ loop_array.step = "return" \/ loop_array.st.fault # "none"
  /\ out_array = Pending
  /\ out_array' = Returned(loop_array.st)
  /\ UNCHANGED <<loop_array, last_call>>
  /\ UNCHANGED driver_unchanged

NextDriver ==
  \/ DriverClear
  \/ DriverPrime
  \/ DriverRemove
  \/ DriverAdd
  \/ DriverEntropy
  \/ DriverReturn

SpecDriver == InitDriver /\ [][NextDriver]_vars

(***************************************************************************)
(* The entropy routines on reads no longer than k and shorter than the     *)
(* window: the read holds no k-mer position (L < k) or exactly one         *)
(* (L = k), and the routines take the fallback of `seq_len < window`.  k   *)
(* runs past the window and past the 15 bases of encode_kmer; the          *)
(* thresholds are 0 and values above it, from the least positive double.   *)
(***************************************************************************)
MaxShortK == 4

ShortConfigs == [k : 1..MaxShortK, window : 2..(MaxShortK + 1)] \cup {LargeK, LongK}

\* reads of LongK.k bases: one base, two bases in turn, and one with an 'N'
LongReads ==
  {[i \in 1..LongK.k |-> "A"],
   [i \in 1..LongK.k |-> IF i % 2 = 1 THEN "A" ELSE "C"],
   [i \in 1..LongK.k |-> IF i = 1 THEN "N" ELSE "A"]}

ShortReads(cf) ==
  {read \in UNION {[1..n -> ReadBytes] : n \in 1..MaxShortK} \cup LongReads :
     Len(read) <= cf.k /\ Len(read) < cf.window}

ShortThresholds == RunThresholds \cup {F64Name.zero}

InitShortReads ==
  /\ \E cf \in ShortConfigs :
        /\ k = cf.k
        /\ window = cf.window
        /\ sequence \in ShortReads(cf)
  /\ quality \in Qualities(sequence)
  /\ entropy_threshold \in ShortThresholds
  /\ window_size = 0
  /\ threshold = 0
  /\ pc = "mask_sequence"
  /\ out_hashmap = Pending
  /\ out_array = Pending
  /\ out_auto = Pending
  /\ out_sdust = Pending
  /\ again_hashmap = Pending
  /\ again_array = Pending
  /\ crate = "rustmasker"
  /\ args = NoArgs
  /\ chunk = <<>>
  /\ written = <<>>
  /\ input = <<>>
  /\ collected = <<>>
  /\ tracker_state = NoTracker
  /\ calls = 0
  /\ encoded = None
  /\ last_call = NoCall
  /\ hash_counts = EmptyMap
  /\ batch = NoBatch
  /\ regions = <<>>
  /\ loop_hashmap = NoLoop
  /\ loop_array = NoLoop

NextShortReads ==
  \/ CallMaskSequence
  \/ CallMaskSequenceArray
  \/ CallMaskSequenceAuto
  \/ AgainMaskSequence
  \/ AgainMaskSequenceArray

SpecShortReads == InitShortReads /\ [][NextShortReads]_vars

(***************************************************************************)
(* Properties.  A call is well formed when the quality has the length of   *)
(* the sequence; the entropy family of runs has 1 <= k < window.           *)
(***************************************************************************)
WellFormed == Len(quality) = Len(sequence)
EntropyRun == k >= 1
Called(out) == out.fault # "pending"
ReturnedOk(out) == out.fault = "none"

\* C1 (backend equivalence): on a well-formed call with 1 <= k <= 7,
\* mask_sequence and mask_sequence_array return byte-identical pairs, and
\* mask_sequence_auto returns that same pair.
BackendEquivalence ==
  (WellFormed /\ EntropyRun /\ k <= 7 /\ Called(out_array)) =>
     /\ out_array = out_hashmap
     /\ Called(out_auto) => out_auto = out_hashmap

\* the entropies of the full window at ws, computed from scratch
window_entropies(ws) ==
  shannon_entropies(get_kmers(Slice(sequence, ws, ws + window), k), window - k + 1)
FlaggedInEveryOrder(ws) ==
  \A entropy \in window_entropies(ws) : F64Lt(entropy, entropy_threshold)
FlaggedInSomeOrder(ws) ==
  \E entropy \in window_entropies(ws) : F64Lt(entropy, entropy_threshold)
\* the starts of the full windows that cover the 0-based position i
Covering(i) == {ws \in 0..(Len(sequence) - window) : ws <= i /\ i < ws + window}

WholeWindowPainted(out) ==
  \A i \in 0..(Len(sequence) - 1) :
     /\ (\E ws \in Covering(i) : FlaggedInEveryOrder(ws)) =>
           out.seq[i + 1] = "N" /\ out.qual[i + 1] = "#"
     /\ (~\E ws \in Covering(i) : FlaggedInSomeOrder(ws)) =>
           out.seq[i + 1] = sequence[i + 1] /\ out.qual[i + 1] = quality[i + 1]

\* C2 (whole-window painting): for a read with L >= W, a position of the
\* output is 'N'/'#' iff a full window covering it has entropy strictly below
\* the threshold or the input already held those bytes, and a position that
\* no flagged window covers keeps its input base and quality; for each of
\* the three entropy routines.
WholeWindowPainting ==
  (WellFormed /\ EntropyRun /\ Len(sequence) >= window) =>
     /\ ReturnedOk(out_hashmap) => WholeWindowPainted(out_hashmap)
     /\ ReturnedOk(out_array) => WholeWindowPainted(out_array)
     /\ ReturnedOk(out_auto) => WholeWindowPainted(out_auto)

\* the part of C2 that is about mask_sequence alone
WholeWindowPaintingHashmap ==
  (WellFormed /\ EntropyRun /\ Len(sequence) >= window /\ ReturnedOk(out_hashmap)) =>
     WholeWindowPainted(out_hashmap)

ConsistentAt(seq, qual, i) == (seq[i] = "N") <=> (qual[i] = "#")
MaskConsistent(out) ==
  \A i \in DOMAIN out.seq \cap DOMAIN out.qual : ConsistentAt(out.seq, out.qual, i)
\* out was returned for the input (seq, qual): every index at which the
\* input was consistent is consistent in the output
KeepsConsistency(seq, qual, out) ==
  \A i \in DOMAIN seq \cap DOMAIN qual :
     ConsistentAt(seq, qual, i) =>
        i \in DOMAIN out.seq /\ i \in DOMAIN out.qual /\ ConsistentAt(out.seq, out.qual, i)

FirstPass == {out_hashmap, out_array, out_auto, out_sdust}

\* C3 as the spec states it (mask consistency): in the pair returned by each
\* of the four routines for a well-formed call, seq'[i] = 'N' iff
\* qual'[i] = '#' at every index, whatever the read held.
MaskConsistency ==
  WellFormed => \A out \in FirstPass : ReturnedOk(out) => MaskConsistent(out)

\* C3 amended: in the pair returned by each of the four routines for a
\* well-formed call, seq'[i] = 'N' iff qual'[i] = '#' at every index i at
\* which the input satisfied seq[i] = 'N' iff qual[i] = '#'.
MaskConsistencyPreserved ==
  WellFormed =>
     \A out \in FirstPass : ReturnedOk(out) => KeepsConsistency(sequence, quality, out)

\* a read with an 'N' of quality '#' that mask_sequence_array painted in
\* part
MaskConsistencyWitness ==
  /\ WellFormed
  /\ ReturnedOk(out_array)
  /\ \E i \in DOMAIN sequence : sequence[i] = "N" /\ quality[i] = "#"
  /\ \E i \in DOMAIN sequence :
        sequence[i] # "N" /\ out_array.seq[i] = "N" /\ out_array.qual[i] = "#"
  /\ \E i \in DOMAIN sequence : out_array.seq[i] # "N"

\* C4 (length preservation): the sequence and the quality that a routine
\* returns have the lengths of the sequence and the quality it was given
\* (first pass on the read, second pass on the first pass's output).
LengthPreservation ==
  /\ \A out \in FirstPass :
        ReturnedOk(out) => Len(out.seq) = Len(sequence) /\ Len(out.qual) = Len(quality)
  /\ ReturnedOk(again_hashmap) =>
        /\ Len(again_hashmap.seq) = Len(out_hashmap.seq)
        /\ Len(again_hashmap.qual) = Len(out_hashmap.qual)
  /\ ReturnedOk(again_array) =>
        /\ Len(again_array.seq) = Len(out_array.seq)
        /\ Len(again_array.qual) = Len(out_array.qual)

\* a read that mask_sequence changed and returned
LengthPreservationWitness ==
  /\ ReturnedOk(out_hashmap)
  /\ Len(sequence) >= window
  /\ out_hashmap.seq # sequence
  /\ \E i \in DOMAIN out_hashmap.seq : out_hashmap.seq[i] # "N"

\* C5 as the spec states it (idempotence): mask_sequence and
\* mask_sequence_array applied to their own output with the same
\* configuration return that output unchanged.
Idempotence ==
  (WellFormed /\ EntropyRun) =>
     /\ ReturnedOk(again_hashmap) => again_hashmap = out_hashmap
     /\ ReturnedOk(again_array) => again_array = out_array

\* the 0-based positions of `seq` that share a window with an 'N' of `seq`:
\* a full window when the read has them, the whole read otherwise
NearN(seq) ==
  IF Len(seq) < window
  THEN IF \E j \in DOMAIN seq : seq[j] = "N" THEN 0..(Len(seq) - 1) ELSE {}
  ELSE {i \in 0..(Len(seq) - 1) :
          \E ws \in 0..(Len(seq) - window) :
             /\ ws <= i /\ i < ws + window
             /\ \E j \in (ws + 1)..(ws + window) : seq[j] = "N"}

\* the second pass `again` over the first pass `out`: what is masked stays
\* masked, and a position changes only to 'N'/'#' and only near an 'N'
SecondPassBounded(out, again) ==
  \A i \in 0..(Len(out.seq) - 1) :
     /\ (out.seq[i + 1] = "N" /\ out.qual[i + 1] = "#") =>
           (again.seq[i + 1] = "N" /\ again.qual[i + 1] = "#")
     /\ (again.seq[i + 1] # out.seq[i + 1] \/ again.qual[i + 1] # out.qual[i + 1]) =>
           /\ again.seq[i + 1] = "N" /\ again.qual[i + 1] = "#"
           /\ i \in NearN(out.seq)

\* C5 amended: the second pass of mask_sequence (or mask_sequence_array)
\* over its own output keeps every masked position masked, and changes a
\* position only by masking it and only if the position shares a window (the
\* whole read when L < W) with an 'N' of the first pass's output; so the
\* output is a fixed point wherever no window holds an 'N'.
IdempotenceAwayFromN ==
  (WellFormed /\ EntropyRun) =>
     /\ ReturnedOk(again_hashmap) => SecondPassBounded(out_hashmap, again_hashmap)
     /\ ReturnedOk(again_array) => SecondPassBounded(out_array, again_array)

\* a read of which the first pass masked a part and left a part, and whose
\* second pass returned
IdempotenceWitness ==
  /\ WellFormed /\ EntropyRun
  /\ ReturnedOk(again_hashmap) /\ ReturnedOk(again_array)
  /\ out_hashmap.seq # sequence
  /\ \E i \in DOMAIN out_hashmap.seq : i - 1 \notin NearN(out_hashmap.seq)
  /\ again_hashmap # out_hashmap

EntropyPass == {out_hashmap, out_array, out_auto}
Unchanged(out) == out.seq = sequence /\ out.qual = quality
FullyMasked(out) ==
  /\ out.seq = [i \in 1..Len(sequence) |-> "N"]
  /\ out.qual = [i \in 1..Len(sequence) |-> "#"]

\* the entropies of the whole read taken as one window of L-k+1 k-mers
read_entropies ==
  shannon_entropies(get_kmers(sequence, k),
                    IF Len(sequence) >= k THEN Len(sequence) - k + 1 ELSE 0)
\* every full window (the whole read when L < W) has entropy above the
\* threshold
EveryWindowAbove ==
  IF Len(sequence) < window
  THEN \A entropy \in read_entropies : F64Lt(entropy_threshold, entropy)
  ELSE \A ws \in 0..(Len(sequence) - window) :
          \A entropy \in window_entropies(ws) : F64Lt(entropy_threshold, entropy)

\* C6 (passthrough of unmaskable reads): when every full window of the read
\* (the whole read when L < W) has normalized entropy greater than the
\* threshold, each entropy routine returns the sequence and the quality
\* unchanged.
Passthrough ==
  (WellFormed /\ EntropyRun /\ EveryWindowAbove) =>
     \A out \in EntropyPass : ReturnedOk(out) => Unchanged(out)

\* the part of C6 that is about mask_sequence alone
PassthroughHashmap ==
  (WellFormed /\ EntropyRun /\ EveryWindowAbove /\ ReturnedOk(out_hashmap)) =>
     Unchanged(out_hashmap)

\* C7 (short-read fallback): for a read with L < W each entropy routine
\* returns either the input or the read masked at every position; with
\* k <= L it masks exactly when the entropy of the valid k-mers of the whole
\* read, with probabilities and normalisation over L-k+1 positions, is
\* strictly below the threshold.
ShortReadFallback ==
  (WellFormed /\ EntropyRun /\ Len(sequence) < window) =>
     \A out \in EntropyPass :
        ReturnedOk(out) =>
           /\ Unchanged(out) \/ FullyMasked(out)
           /\ (Len(sequence) >= k) =>
                 /\ (\A entropy \in read_entropies : F64Lt(entropy, entropy_threshold))
                       => FullyMasked(out)
                 /\ (\A entropy \in read_entropies : ~F64Lt(entropy, entropy_threshold))
                       => Unchanged(out)

\* a short read with two different bases that mask_sequence_array masked
\* whole
ShortReadFallbackWitness ==
  /\ WellFormed /\ EntropyRun
  /\ k <= Len(sequence) /\ Len(sequence) < window
  /\ ReturnedOk(out_array) /\ FullyMasked(out_array)
  /\ \E i, j \in DOMAIN sequence :
        sequence[i] = "A" /\ sequence[j] = "C"

\* C8 (totality): on a well-formed call with 1 <= k <= the encoding maximum
\* and W > k, each entropy routine returns a pair: no index out of bounds, no
\* failed assertion, no unsigned underflow.
Totality ==
  (WellFormed /\ 1 <= k /\ k <= EncodingMax /\ window > k) =>
     \A out \in EntropyPass : Called(out) => ReturnedOk(out)

\* a well-formed call on which mask_sequence_array ended in the underflow of
\* count_counts[0]
TotalityFails ==
  /\ WellFormed /\ 1 <= k /\ k <= EncodingMax /\ window > k
  /\ out_array.fault = "overflow"

\* the full-length quality that a FASTQ record of the same read would carry
PlainQuality == [i \in 1..Len(sequence) |-> "I"]
SeqOf(results) == {r.seq : r \in {x \in results : x.fault = "none"}}

\* the sequences that each routine returns for the read with PlainQuality
WithPlainQuality ==
  [hashmap |-> SeqOf(mask_sequence(sequence, PlainQuality, window, entropy_threshold, k)),
   array   |-> SeqOf(mask_sequence_array(sequence, PlainQuality, window, entropy_threshold, k)),
   auto    |-> SeqOf(mask_sequence_auto(sequence, PlainQuality, window, entropy_threshold, k)),
   sdust   |-> SeqOf({mask_sequence_sdust(sequence, PlainQuality, window_size, threshold)})]

QualityIndependent(out, seqs) ==
  Called(out) => /\ ReturnedOk(out)
                 /\ out.qual = <<>>
                 /\ out.seq \in seqs

\* C9 (empty quality): called with an empty quality buffer, each routine
\* returns normally, the returned sequence is one that it returns for the same
\* read with a full-length quality, and the returned quality is empty, also
\* when a window is flagged.
EmptyQuality ==
  quality = <<>> =>
     /\ QualityIndependent(out_hashmap, WithPlainQuality.hashmap)
     /\ QualityIndependent(out_array, WithPlainQuality.array)
     /\ QualityIndependent(out_auto, WithPlainQuality.auto)
     /\ QualityIndependent(out_sdust, WithPlainQuality.sdust)

\* an empty quality buffer and a read that the routine leaves alone: the
\* one case in which the call returns
EmptyQualityUnflagged ==
  /\ quality = <<>> /\ Len(sequence) >= window /\ EntropyRun
  /\ ReturnedOk(out_hashmap) /\ out_hashmap.seq = sequence /\ out_hashmap.qual = <<>>

\* a masking routine has been called by the binary: records were written,
\* or the call ended the process
CoreEntered == written # <<>> \/ pc = "panicked"

\* the k-mer sizes a binary documents (`maximum k=15`, `maximum k=8`)
MaxKmer(binary) == IF binary = "mask_fastq" THEN 15 ELSE 8

\* C10 (configuration errors): a binary never calls a masking routine with k
\* outside its supported range, a threshold outside [0,1] or a window W <= k:
\* such arguments end main before the first record is read.
ConfigurationChecked ==
  CoreEntered =>
     /\ 1 <= args.kmer /\ args.kmer <= MaxKmer(args.binary)
     /\ args.window > args.kmer
     /\ ~F64Lt(args.entropy, F64Name.zero) /\ ~F64Lt(F64Name.one, args.entropy)

\* what the binaries do check: the k-mer size
KmerChecked ==
  CoreEntered => (1 <= args.kmer /\ args.kmer <= MaxKmer(args.binary))

\* the record written at place i is the input's record i: its id, and a
\* sequence and quality that the selected routine returns for that record
WrittenFrom(i) ==
  /\ written[i].id = input[i].id
  /\ \E r \in mask_record(args, input[i]) :
       /\ r.fault = "none"
       /\ written[i].seq = r.seq
       /\ written[i].qual = r.qual

WindowFull ==
  /\ tracker_state.fault = "none"
  /\ occurrences(tracker_state) = tracker_state.window_kmers
AllOneCode ==
  \E code \in DOMAIN tracker_state.counts :
     tracker_state.counts[code] = tracker_state.window_kmers
AllDistinct == \A code \in DOMAIN tracker_state.counts : tracker_state.counts[code] <= 1

\* C12 (entropy range): whenever the tracker holds exactly window_kmers
\* occurrences, entropy() lies in [0,1], is 0 exactly when all of them are of
\* one code, and is 1 when their codes are pairwise distinct.
EntropyRange ==
  WindowFull =>
     LET e == ArrayEntropyTracker_entropy(tracker_state)
     IN /\ ~F64Lt(e, F64Name.zero)
        /\ ~F64Lt(F64Name.one, e)
        /\ (e = F64Name.zero) <=> AllOneCode
        /\ AllDistinct => e = F64Name.one

\* what the tracker does keep: entropy() of a full window is never negative,
\* and it is 0 only if all occurrences are of one code
EntropyNonNegative ==
  WindowFull =>
     LET e == ArrayEntropyTracker_entropy(tracker_state)
     IN /\ ~F64Lt(e, F64Name.zero)
        /\ (e = F64Name.zero) => AllOneCode

\* the multiset M that the tracker of SpecTracker holds, as the HashMap that
\* get_kmers would build for it
tracker_multiset ==
  [code \in {c \in DOMAIN tracker_state.counts : tracker_state.counts[c] > 0} |->
     tracker_state.counts[code]]

\* the tracker holds at most window_kmers occurrences
WithinWindow ==
  /\ tracker_state.fault = "none"
  /\ occurrences(tracker_state) <= tracker_state.window_kmers

\* the entropies of M computed from scratch, one per iteration order
rebuilt_entropies == shannon_entropies(tracker_multiset, tracker_state.window_kmers)

\* C13 as the claim states it (rolling equals rebuild): after any add_kmer and
\* remove_kmer calls that leave a multiset M of at most window_kmers codes,
\* entropy() equals shannon_entropy of M with total window_kmers.
RollingEqualsRebuild ==
  WithinWindow =>
     \A e \in rebuilt_entropies : ArrayEntropyTracker_entropy(tracker_state) = e

\* C13 (rolling equals rebuild, to within 1e-9): after any add_kmer,
\* remove_kmer and clear calls that leave a multiset M of at most
\* window_kmers codes, entropy() differs from shannon_entropy of M with total
\* window_kmers by less than 1e-9, in every iteration order of the HashMap.
RollingNearRebuild ==
  WithinWindow =>
     \A e \in rebuilt_entropies : F64Near(ArrayEntropyTracker_entropy(tracker_state), e)

\* a full window of at least two codes, reached by more calls than it holds
\* occurrences (some were removed again)
RollingNearRebuildWitness ==
  /\ WithinWindow
  /\ occurrences(tracker_state) = tracker_state.window_kmers
  /\ ArrayEntropyTracker_unique(tracker_state) >= 2
  /\ calls > occurrences(tracker_state) + 1

\* a non-empty read of one repeated base, with a quality per base, masked
\* with a threshold above 0 and a window above k
HomopolymerRun ==
  /\ sequence # <<>>
  /\ \E base \in {"A", "C", "G", "T"} : \A i \in DOMAIN sequence : sequence[i] = base
  /\ WellFormed
  /\ k >= 1 /\ window > k
  /\ F64Lt(F64Name.zero, entropy_threshold)

valid_triplet(p) ==
  /\ p >= 0 /\ p + 3 <= Len(sequence)
  /\ encode_triplet(Slice(sequence, p, p + 3)) # None

\* the n consecutive triplets that start at bases p, p+1, ..
triplets_from(p, n) == [j \in 1..n |-> encode_triplet(Slice(sequence, p + j - 1, p + j + 2))]

\* a window of exactly window_size consecutive triplets starts at base p, and
\* its score passes: 10 * score > T * W_dust
WindowFlagged(p) ==
  /\ \A j \in 0..(window_size - 1) : valid_triplet(p + j)
  /\ 10 * SdustScorer_score_window(triplets_from(p, window_size)) > threshold * window_size

\* base i (from 1) lies in the span of a flagged window
InFlaggedSpan(i) ==
  \E p \in 0..(Len(sequence) - 1) :
     WindowFlagged(p) /\ p + 1 <= i /\ i <= p + window_size + 2

ShortSegmentFlagged(p, n) ==
  /\ n >= 1 /\ n < window_size
  /\ \A j \in 0..(n - 1) : valid_triplet(p + j)
  /\ ~valid_triplet(p - 1) /\ ~valid_triplet(p + n)
  /\ 10 * SdustScorer_score_window(triplets_from(p, n)) > threshold * n

InShortSegment(i) ==
  \E p \in 0..(Len(sequence) - 1), n \in 1..Len(sequence) :
     ShortSegmentFlagged(p, n) /\ p + 1 <= i /\ i <= p + n + 2

SplitAt(i) ==
  LET n == Len(sequence)
      forX == mask_sequence_sdust(SubSeq(sequence, 1, i - 1), SubSeq(quality, 1, i - 1),
                                  window_size, threshold)
      forY == mask_sequence_sdust(SubSeq(sequence, i + 1, n), SubSeq(quality, i + 1, n),
                                  window_size, threshold)
  IN /\ ReturnedOk(forX) /\ ReturnedOk(forY)
     /\ out_sdust.seq = forX.seq \o <<sequence[i]>> \o forY.seq
     /\ out_sdust.qual = forX.qual \o <<quality[i]>> \o forY.qual

\* C16 (invalid bases split the DUST scan): for a read X b Y with b no base,
\* mask_sequence_sdust returns what it returns for X, then b with its quality
\* unchanged, then what it returns for Y.
DustSplit ==
  (WellFormed /\ ReturnedOk(out_sdust)) =>
     \A i \in DOMAIN sequence : BaseBits(sequence[i]) = None => SplitAt(i)

\* two parts with triplets of their own around the byte, one part masked and
\* the other one not
DustSplitWitness ==
  /\ WellFormed /\ ReturnedOk(out_sdust)
  /\ \E i \in DOMAIN sequence :
        /\ BaseBits(sequence[i]) = None
        /\ i > 3 /\ Len(sequence) - i >= 3
        /\ \A j \in DOMAIN sequence : j # i => BaseBits(sequence[j]) # None
        /\ \E j \in 1..(i - 1) : out_sdust.seq[j] = "N"
        /\ \A j \in (i + 1)..Len(sequence) : out_sdust.seq[j] # "N"

\* every position that out_sdust (threshold T2 = threshold) holds masked is
\* masked in whatever the call returns for the same read under T1
MaskedUnder(T1) ==
  \A o \in mask_sequence_sdust_outcomes(sequence, quality, window_size, T1) :
     ReturnedOk(o) => \A i \in DOMAIN sequence : out_sdust.seq[i] = "N" => o.seq[i] = "N"

\* C17 (DUST threshold monotonicity): for every read, window size and
\* thresholds T1 <= T2, every position that mask_sequence_sdust masks under T2
\* is masked under T1.
ThresholdMonotone ==
  (WellFormed /\ ReturnedOk(out_sdust)) =>
     \A T1 \in WideThresholds : T1 <= threshold => MaskedUnder(T1)

\* the products of should_mask with this threshold stay in the i32 range
ProductsFit(T) == I32MulFits(T, window_size)

\* what holds: monotonicity between thresholds whose products fit
ThresholdMonotoneInRange ==
  (WellFormed /\ ReturnedOk(out_sdust) /\ ProductsFit(threshold)) =>
     \A T1 \in WideThresholds :
        (T1 <= threshold /\ ProductsFit(T1)) => MaskedUnder(T1)

\* main of the mask_fastq binary accepted the command line, whose window is
\* above k, and every record of the input has a quality per base
AcceptedRun ==
  /\ args.binary = "mask_fastq"
  /\ pc \notin {"main", "exit_1"}
  /\ args.window > args.kmer
  /\ \A n \in DOMAIN input : Len(input[n].qual) = Len(input[n].seq)

\* encode_kmer returns a code for every slice of args.kmer bases of the input
EverySliceEncoded ==
  \A n \in DOMAIN input :
     \A i \in 0..(Len(input[n].seq) - args.kmer) :
        LET slice == Slice(input[n].seq, i, i + args.kmer)
        IN (\A j \in DOMAIN slice : BaseBits(slice[j]) # None) => encode_kmer(slice) # None

\* C18 (supported k range of the mask_fastq binary): for every k-mer size that
\* main accepts (1 <= k <= 15), encode_kmer returns a code for every k-length
\* slice of bases, and the selected masking routine does not abort.
SupportedKmers ==
  AcceptedRun => (EverySliceEncoded /\ pc # "panicked")

\* what the library of the binary supports: k up to its encoding maximum
SupportedKmersOfCrate ==
  (AcceptedRun /\ args.kmer <= EncodingMax) => (EverySliceEncoded /\ pc # "panicked")

\* a byte with its case folded
UpperCase(b) ==
  CASE b = "a" -> "A"
    [] b = "c" -> "C"
    [] b = "g" -> "G"
    [] b = "t" -> "T"
    [] OTHER -> b

\* the slice is within the encoding maximum and holds bases only
ValidSlice(bases) ==
  /\ Len(bases) <= EncodingMax
  /\ \A i \in DOMAIN bases : UpperCase(bases[i]) \in {"A", "C", "G", "T"}

\* the digit of a base: A=0, C=1, G=2, T=3
BaseDigit(b) ==
  CASE UpperCase(b) = "A" -> 0
    [] UpperCase(b) = "C" -> 1
    [] UpperCase(b) = "G" -> 2
    [] UpperCase(b) = "T" -> 3

RECURSIVE BaseFourValue(_, _)
\* the base-4 number of bases[i..], the first base most significant
BaseFourValue(bases, i) ==
  IF i > Len(bases) THEN 0
  ELSE BaseDigit(bases[i]) * Pow4(Len(bases) - i) + BaseFourValue(bases, i + 1)

\* C19 (k-mer encoding): encode_kmer returns None exactly for a slice longer
\* than the encoding maximum or with a byte that is no base; otherwise it
\* returns the base-4 number of the bases (A=0, C=1, G=2, T=3, the first base
\* most significant), which is below 4^k and equals the code of another valid
\* slice of that length exactly when the two are equal ignoring case.
KmerEncoding ==
  pc = "encoded" =>
     /\ (encoded = None) <=> ~ValidSlice(sequence)
     /\ ValidSlice(sequence) =>
           /\ encoded = BaseFourValue(sequence, 1)
           /\ 0 <= encoded /\ encoded < Pow4(Len(sequence))
           /\ \A other \in EncodeSlices :
                 (Len(other) = Len(sequence) /\ ValidSlice(other)) =>
                    ((encode_kmer(other) = encoded)
                       <=> (\A i \in DOMAIN other : UpperCase(other[i]) = UpperCase(sequence[i])))

\* the greatest code of the crate: lower-case 't' repeated EncodingMax times
KmerEncodingWitness ==
  /\ pc = "encoded"
  /\ Len(sequence) = EncodingMax
  /\ sequence[1] = "t"
  /\ encoded = Pow4(EncodingMax) - 1

\* the number of offsets ws..ws+W-k of the read whose k-mer has this code
WindowCount(ws, code) ==
  Cardinality({o \in ws..(ws + window - k) :
                 /\ o + k <= Len(sequence)
                 /\ encode_kmer(Slice(sequence, o, o + k)) = code})

\* the codes of the valid k-mers of window [ws, ws+W)
WindowCodes(ws) ==
  {encode_kmer(Slice(sequence, o, o + k)) : o \in ws..(ws + window - k)} \ {None}

\* the HashMap holds the codes of the window, each with its number of
\* occurrences, and no other key
HashMapHoldsWindow(kmer_counts, ws) ==
  /\ DOMAIN kmer_counts = WindowCodes(ws)
  /\ \A code \in DOMAIN kmer_counts : kmer_counts[code] = WindowCount(ws, code)

\* every cell of counts holds the number of occurrences of its code
TrackerHoldsWindow(tracker, ws) ==
  \A code \in DOMAIN tracker.counts : tracker.counts[code] = WindowCount(ws, code)

\* C20 (sliding-protocol invariant): on a read with L >= W > k, after the
\* iteration that queried the entropy of window [ws, ws+W) the count structure
\* of mask_sequence and that of mask_sequence_array hold exactly the multiset
\* of the codes of the valid k-mers at offsets ws..ws+W-k, for the primed
\* window and for every window reached by sliding.
SlidingProtocol ==
  pc = "loop" =>
     /\ loop_hashmap.i > first_full_i(window) =>
           \A st \in loop_hashmap.states :
              st.fault = "none" =>
                 HashMapHoldsWindow(st.kmer_counts, loop_hashmap.i - window)
     /\ (loop_array.i > first_full_i(window) /\ loop_array.st.fault = "none") =>
           TrackerHoldsWindow(loop_array.st.tracker, loop_array.i - window)

\* both routines slid at least twice over a read with an 'N', and the window
\* they are at holds a valid k-mer twice
SlidingProtocolWitness ==
  /\ pc = "loop"
  /\ loop_hashmap.i >= window + 2
  /\ loop_array.i = loop_hashmap.i
  /\ loop_array.st.fault = "none"
  /\ \E st \in loop_hashmap.states : st.fault = "none"
  /\ \E p \in DOMAIN sequence : p < loop_hashmap.i - window /\ sequence[p] = "N"
  /\ \E code \in WindowCodes(loop_hashmap.i - window) :
        WindowCount(loop_hashmap.i - window, code) = 2

\* the stepwise loops return what the routines return
SlideReturns ==
  pc = "loop" =>
     /\ out_hashmap.fault # "pending" =>
           out_hashmap \in mask_sequence(sequence, quality, window, entropy_threshold, k)
     /\ out_array.fault # "pending" =>
           out_array \in mask_sequence_array(sequence, quality, window, entropy_threshold, k)

\* the number of codes of the code space whose count is j
codes_with_count(t, j) == Cardinality({c \in DOMAIN t.counts : t.counts[c] = j})

\* C21 (histogram invariant): after construction, after clear() and after
\* every add_kmer and remove_kmer, count_counts[j] is the number of codes c
\* with counts[c] = j, for every j >= 0; for j = 0 that is the number of codes
\* of the 4^k code space that are absent.
HistogramInvariant ==
  (pc = "tracker" /\ tracker_state.fault = "none") =>
     \A j \in DOMAIN tracker_state.count_counts :
        tracker_state.count_counts[j] = codes_with_count(tracker_state, j)

\* the cells of the occurring counts are the histogram of counts; cell 0
\* holds window_kmers less the number of codes present
HistogramOfPresentCodes ==
  (pc = "tracker" /\ tracker_state.fault = "none") =>
     /\ \A j \in DOMAIN tracker_state.count_counts \ {0} :
           tracker_state.count_counts[j] = codes_with_count(tracker_state, j)
     /\ tracker_state.count_counts[0]
          = tracker_state.window_kmers
              - Cardinality({c \in DOMAIN tracker_state.counts : tracker_state.counts[c] > 0})

\* the window that mask_sequence_array queried last, by its first offset
queried_window == loop_array.i - window

\* mask_sequence_array has queried the entropy of a full window
ArrayQueried ==
  /\ pc = "loop"
  /\ loop_array.i > first_full_i(window)
  /\ loop_array.st.fault = "none"

\* the offsets of the window whose k-mer holds bases only
valid_offsets(ws) ==
  {o \in ws..(ws + window - k) : encode_kmer(Slice(sequence, o, o + k)) # None}

\* C22 (occupancy invariant): at every point where mask_sequence_array queries
\* entropy() the sum of all tracker counts equals window_kmers = W - k + 1.
OccupancyFull ==
  ArrayQueried => occurrences(loop_array.st.tracker) = window - k + 1

\* C22 as the code has it: the sum of the counts is the number of k-mers of
\* the window without an invalid base; that is window_kmers when the window
\* holds bases only and less when a k-mer of it was skipped.
OccupancyOfValidKmers ==
  ArrayQueried =>
     /\ occurrences(loop_array.st.tracker) = Cardinality(valid_offsets(queried_window))
     /\ occurrences(loop_array.st.tracker) <= window - k + 1
     /\ (\A p \in (queried_window + 1)..(queried_window + window) :
            BaseBits(sequence[p]) # None)
          => occurrences(loop_array.st.tracker) = window - k + 1

\* a window of bases reached by sliding past an 'N', with a code held twice
OccupancyWitness ==
  /\ ArrayQueried
  /\ queried_window >= 2
  /\ sequence[queried_window - 1] = "N"
  /\ occurrences(loop_array.st.tracker) = window - k + 1
  /\ \E code \in DOMAIN loop_array.st.tracker.counts :
        loop_array.st.tracker.counts[code] = 2

\* the codes whose count is positive
present_codes(t) == {c \in DOMAIN t.counts : t.counts[c] > 0}

RECURSIVE count_counts_sum(_, _)
\* the sum of count_counts[1..=j]
count_counts_sum(count_counts, j) ==
  IF j < 1 THEN 0 ELSE count_counts[j] + count_counts_sum(count_counts, j - 1)

\* unique() is the number of codes present and the sum of the cells of the
\* positive counts
UniqueCounted ==
  (pc = "tracker" /\ tracker_state.fault = "none") =>
     /\ ArrayEntropyTracker_unique(tracker_state)
          = Cardinality(present_codes(tracker_state))
     /\ ArrayEntropyTracker_unique(tracker_state)
          = count_counts_sum(tracker_state.count_counts, tracker_state.window_kmers + 1)

\* add_kmer of a code that is present, and remove_kmer of a code that is
\* absent or held more than once, leave unique() as it was
UniqueKept ==
  (/\ pc = "tracker"
   /\ tracker_state'.fault = "none"
   /\ \/ /\ last_call'.op = "add_kmer"
         /\ tracker_state.counts[last_call'.kmer_code] > 0
      \/ /\ last_call'.op = "remove_kmer"
         /\ tracker_state.counts[last_call'.kmer_code] # 1)
    => ArrayEntropyTracker_unique(tracker_state')
         = ArrayEntropyTracker_unique(tracker_state)

\* C23 (unique-count invariant): after any sequence of add_kmer and
\* remove_kmer calls, removes of absent codes included, unique() is the number
\* of codes with a positive count and the sum of count_counts[j] over j >= 1;
\* adding a code already present or removing one occurrence of a code held
\* more than once leaves unique() unchanged.
UniqueCount == []UniqueCounted /\ [][UniqueKept]_vars

\* one of several occurrences of a code was removed while another code is
\* present
UniqueCountWitness ==
  /\ pc = "tracker"
  /\ tracker_state.fault = "none"
  /\ last_call.op = "remove_kmer"
  /\ last_call.kmer_code \in present_codes(tracker_state)
  /\ ArrayEntropyTracker_unique(tracker_state) >= 2

\* remove_kmer of a k-mer whose code is absent changes neither structure
RemoveOfAbsentCode ==
  (/\ pc = "backends"
   /\ last_call'.op = "remove_kmer"
   /\ encode_kmer(last_call'.kmer) # None)
    => /\ tracker_state.counts[encode_kmer(last_call'.kmer)] = 0
            => tracker_state' = tracker_state
       /\ encode_kmer(last_call'.kmer) \notin DOMAIN hash_counts
            => hash_counts' = hash_counts

\* C24 (remove of an absent code is a no-op): remove_kmer with a code whose
\* count is 0 leaves counts, count_counts, the running entropy sum and unique
\* unchanged and does not underflow, in the array tracker; in the HashMap
\* backend no entry is created or decremented.
RemoveAbsentNoOp == [][RemoveOfAbsentCode]_vars

\* a k-mer of bases was removed from structures that hold another one and
\* not it: one add_kmer, then the remove_kmer
RemoveAbsentNoOpWitness ==
  /\ pc = "backends"
  /\ calls = 2
  /\ last_call.op = "remove_kmer"
  /\ encode_kmer(last_call.kmer) # None
  /\ encode_kmer(last_call.kmer) \notin DOMAIN hash_counts
  /\ tracker_state.fault = "none"
  /\ tracker_state.counts[encode_kmer(last_call.kmer)] = 0
  /\ ArrayEntropyTracker_unique(tracker_state) = 1
  /\ Cardinality(DOMAIN hash_counts) = 1

\* the tracker after clear() is the tracker that new builds
ClearedIsNew ==
  (pc = "tracker" /\ last_call.op = "clear") =>
     /\ \E cfg \in TrackerConfigs :
           tracker_state = ArrayEntropyTracker_new(cfg.k, cfg.window)
     /\ \A code \in DOMAIN tracker_state.counts : tracker_state.counts[code] = 0
     /\ \A j \in DOMAIN tracker_state.count_counts :
           tracker_state.count_counts[j] = IF j = 0 THEN tracker_state.window_kmers ELSE 0
     /\ tracker_state.current_esum = F64Name.zero
     /\ ArrayEntropyTracker_unique(tracker_state) = 0
     /\ ArrayEntropyTracker_entropy(tracker_state) = F64Name.zero

\* clear() leaves window_kmers, on which the precomputed table depends, and
\* the normalisation factor as they were
ClearKeepsTable ==
  (pc = "tracker" /\ last_call'.op = "clear") =>
     /\ tracker_state'.window_kmers = tracker_state.window_kmers
     /\ tracker_state'.entropy_mult = tracker_state.entropy_mult
     /\ DOMAIN tracker_state'.counts = DOMAIN tracker_state.counts

\* C25 (clear() restores the initial state): after any sequence of add_kmer
\* and remove_kmer calls, clear() leaves the tracker in the state that
\* ArrayEntropyTracker::new produces for the same (k, window): all counts 0,
\* count_counts = [window_kmers, 0, ...], running sum 0, unique 0, entropy() 0,
\* with the table and the normalisation factor untouched.
ClearRestoresNew == []ClearedIsNew /\ [][ClearKeepsTable]_vars

\* clear() was the last of at least four calls
ClearRestoresNewWitness ==
  /\ pc = "tracker"
  /\ last_call.op = "clear"
  /\ calls >= 4
  /\ tracker_state.fault = "none"
  /\ tracker_state.window_kmers = 5

\* the first base of the batch and the base after its last one
batch_start == batch.positions[1]
batch_end == batch.positions[Len(batch.positions)] + 3

\* window i of the batch is flagged; a batch with fewer triplets than
\* window_size is one window
BatchWindowFlagged(i) ==
  IF Len(batch.triplets) < window_size
  THEN /\ i = 0
       /\ SdustScorer_should_mask(threshold, SdustScorer_score_window(batch.triplets),
                                  Len(batch.triplets))
  ELSE /\ i <= Len(batch.triplets) - window_size
       /\ SdustScorer_should_mask(threshold,
             SdustScorer_score_window(Slice(batch.triplets, i, i + window_size)),
             window_size)

\* base p lies in the span of a flagged window
InFlaggedWindow(p) ==
  \E i \in 0..(Len(batch.triplets) - 1) :
     /\ BatchWindowFlagged(i)
     /\ batch.positions[i + 1] <= p
     /\ p < (IF Len(batch.triplets) < window_size THEN batch_end
             ELSE batch.positions[i + window_size] + 3)

\* C26 (DUST region merging): the regions that find_dust_regions returns for
\* one batch are in strictly increasing order and neither overlap nor touch,
\* each is non-empty and ends no later than the last base of the batch, and
\* their union is the union of the base spans of the flagged windows.
RegionsMerged ==
  pc = "regions" =>
     /\ \A n \in DOMAIN regions :
           /\ batch_start <= regions[n].start
           /\ regions[n].start < regions[n].end
           /\ regions[n].end <= batch_end
     /\ \A n \in 1..(Len(regions) - 1) : regions[n].end < regions[n + 1].start
     /\ \A p \in batch_start..(batch_end - 1) :
           (\E n \in DOMAIN regions : regions[n].start <= p /\ p < regions[n].end)
              <=> InFlaggedWindow(p)

\* two regions with unflagged bases between them
RegionsMergedWitness ==
  /\ pc = "regions"
  /\ Len(regions) = 2
  /\ regions[1].end + 1 = regions[2].start
  /\ batch_start = 2

\* a region made of two flagged windows that touch and do not overlap
RegionsTouchingMerged ==
  /\ pc = "regions"
  /\ window_size = 2
  /\ Len(regions) = 1
  /\ regions[1].end - regions[1].start = 8
  /\ ~BatchWindowFlagged(1) /\ ~BatchWindowFlagged(2) /\ ~BatchWindowFlagged(3)

\* C27 (counter width): for every (k, window) that ArrayEntropyTracker::new
\* accepts, window_kmers is stored into count_counts[0] without truncation,
\* and no u16 cell wraps or underflows while a window of that size is primed
\* and slid.
CounterWidth ==
  ArrayEntropyTracker_new(k, window).fault = "none" =>
     /\ ArrayEntropyTracker_new(k, window).count_counts[0] = window - k + 1
     /\ out_array.fault # "overflow"
     /\ out_auto.fault # "overflow"

\* C28: tracker capacity is respected by the driver.  At every add_kmer
\* call made by mask_sequence_array the tracker holds at most
\* window_kmers - 1 occurrences, the call does not decrement
\* count_counts[0] below zero and indexes no cell out of range (it ends
\* without a panic), and afterwards no count exceeds window_kmers.
driver_adds ==
  /\ pc = "driver"
  /\ loop_array.step \in {"prime", "add"}
  /\ loop_array' # loop_array
  /\ last_call'.op = "add_kmer"

CapacityAtAdd ==
  driver_adds =>
     /\ occurrences(loop_array.st.tracker) <= loop_array.st.tracker.window_kmers - 1
     /\ loop_array'.st.fault = "none"
     /\ \A code \in DOMAIN loop_array'.st.tracker.counts :
           loop_array'.st.tracker.counts[code] <= loop_array.st.tracker.window_kmers
     /\ \A j \in DOMAIN loop_array'.st.tracker.count_counts :
           loop_array'.st.tracker.count_counts[j] <= loop_array.st.tracker.window_kmers

TrackerCapacity == [][CapacityAtAdd]_vars

\* C28, for the windows whose window_kmers a u16 cell holds: the same
\* statement at every add_kmer call of those runs.
TrackerCapacityInRange ==
  [][loop_array.st.tracker.window_kmers <= U16Max => CapacityAtAdd]_vars

\* an add_kmer of a slide on a tracker that holds window_kmers - 1
\* occurrences, the exiting k-mer just removed
TrackerCapacityWitness ==
  /\ pc = "driver"
  /\ loop_array.step = "entropy"
  /\ ~loop_array.st.first_full_window
  /\ loop_array.i >= window
  /\ last_call.op = "add_kmer"
  /\ loop_array.st.fault = "none"
  /\ occurrences(loop_array.st.tracker) = loop_array.st.tracker.window_kmers

\* the routine one tracker call at a time returns what mask_sequence_array
\* returns
DriverReturnsArray ==
  (pc = "driver" /\ out_array # Pending /\ window <= MaxWindow) =>
     out_array \in mask_sequence_array(sequence, quality, window, entropy_threshold, k)

\* C29: reads no longer than k.  A non-empty read of length L < W with
\* L <= k, given with a quality per base, has fallback entropy 0 (it holds
\* no k-mer position, or exactly one) and is returned fully masked, 'N' and
\* '#' at every position, by each entropy routine under every threshold
\* above 0, whatever its bases.
NoLongerThanK ==
  /\ WellFormed
  /\ Len(sequence) >= 1
  /\ Len(sequence) < window
  /\ Len(sequence) <= k

ShortReadsMasked ==
  NoLongerThanK =>
     /\ read_entropies = {F64Name.zero}
     /\ F64Lt(F64Name.zero, entropy_threshold) =>
           \A out \in EntropyPass :
              Called(out) => ReturnedOk(out) /\ FullyMasked(out)

\* a read of exactly k bases, two of them different and all valid, masked
\* whole by the three routines under the least positive threshold
ShortReadsMaskedWitness ==
  /\ NoLongerThanK
  /\ Len(sequence) = k
  /\ \E i, j \in DOMAIN sequence : sequence[i] = "A" /\ sequence[j] = "C"
  /\ \A i \in DOMAIN sequence : sequence[i] # "N"
  /\ entropy_threshold = F64Name.tiny
  /\ \A out \in EntropyPass : ReturnedOk(out) /\ FullyMasked(out)

\* a read shorter than k, with no k-mer position, masked whole
ShortReadsMaskedNoKmer ==
  /\ NoLongerThanK
  /\ Len(sequence) < k
  /\ \A i \in DOMAIN sequence : sequence[i] = "C"
  /\ entropy_threshold = F64Name.one
  /\ \A out \in EntropyPass : ReturnedOk(out) /\ FullyMasked(out)

\* a maximal run of valid bases starts at base p (from 0) and yields n
\* triplets, fewer than the window holds
ShortRun(p, n) ==
  /\ n >= 1 /\ n < window_size
  /\ \A j \in 0..(n - 1) : valid_triplet(p + j)
  /\ ~valid_triplet(p - 1) /\ ~valid_triplet(p + n)

\* 10 * score > threshold * n over the integers (n >= 1), written without
\* the product
ShortRunPasses(p, n) ==
  threshold <= (10 * SdustScorer_score_window(triplets_from(p, n)) - 1) \div n

ShortRunMasked(p, n) ==
  \A i \in (p + 1)..(p + n + 2) : out_sdust.seq[i] = "N" /\ out_sdust.qual[i] = "#"

ShortRunKept(p, n) ==
  \A i \in (p + 1)..(p + n + 2) :
     out_sdust.seq[i] = sequence[i] /\ out_sdust.qual[i] = quality[i]

\* C30 (DUST short-run rule): mask_sequence_sdust scores a maximal run of
\* valid bases that yields n triplets, 1 <= n < window_size, once over its n
\* triplets, and returns the run masked as a whole, from its first base
\* through its last, if and only if 10 * score > threshold * n; otherwise
\* it returns every base of the run unchanged.
DustShortRunRule ==
  (WellFormed /\ Called(out_sdust)) =>
     \A p \in 0..(Len(sequence) - 1), n \in 1..Len(sequence) :
        ShortRun(p, n) =>
           /\ ReturnedOk(out_sdust)
           /\ IF ShortRunPasses(p, n) THEN ShortRunMasked(p, n) ELSE ShortRunKept(p, n)

\* a read with a short run that was masked whole and a short run that was
\* kept, the two apart by a byte that is no base
DustShortRunWitness ==
  /\ WellFormed /\ ReturnedOk(out_sdust)
  /\ \E p \in 0..(Len(sequence) - 1), n \in 1..Len(sequence) :
        ShortRun(p, n) /\ ShortRunPasses(p, n) /\ ShortRunMasked(p, n)
  /\ \E p \in 0..(Len(sequence) - 1), n \in 1..Len(sequence) :
        ShortRun(p, n) /\ ~ShortRunPasses(p, n) /\ ShortRunKept(p, n)

=============================================================================
